---- MODULE Spec2Model ----
(***************************************************************************)
(* Model of the sql-rules rule engine: the rule registry                   *)
(* (GenericConstrainer), the traversal of a schema (Constrainer) and the   *)
(* diagnostics the rules build (RuleErrorInfoBuilder).                     *)
(***************************************************************************)
EXTENDS Integers, Sequences, FiniteSets, TLC

VARIABLES
    database,       \* the schema handed to the constrainer: a sequence of tables
    tables,         \* GenericConstrainer.tables: the registered table rules
    columns,        \* GenericConstrainer.columns: the registered column rules
    foreign_keys,   \* GenericConstrainer.foreign_keys: the registered foreign-key rules
    registered,     \* history: the register_* calls made so far, in call order
    last,           \* the most recent validation call on this registry and what it returned
    builder,        \* the diagnostic builder in hand: <<>> when none, else <<the builder>>
    reply,          \* the most recent builder call and what it returned
    passed,         \* history: the last value each setter took since builder(), <<>> when none
    report          \* the most recent application of a shipped rule and what it returned

engine_vars == <<database, tables, columns, foreign_keys, registered, last>>

builder_vars == <<builder, reply, passed>>

vars ==
    <<database, tables, columns, foreign_keys, registered, last, builder, reply, passed,
      report>>

\* ---------------------------------------------------------------- bounds

\* Largest number of entities (tables + columns + foreign keys) of a schema.
MaxEntities == 3

\* Largest number of register_* calls on one constrainer.
MaxRegistered == 3

\* ---------------------------------------------------------------- results

Ok == [ok |-> TRUE]

Err(e) == [ok |-> FALSE, error |-> e]

\* The variants of Error.
TableError(table, info) == [variant |-> "Table", entity |-> table, info |-> info]

ColumnError(column, info) == [variant |-> "Column", entity |-> column, info |-> info]

ForeignKeyError(fk, info) == [variant |-> "ForeignKey", entity |-> fk, info |-> info]

Unapplicable(message) == [variant |-> "Unapplicable", message |-> message]

\* ---------------------------------------------------------------- schema

\* What a rule object looks at in an entity. A rule is a function of the entity;
\* the tag stands for the entity's content that the registered rules inspect.
Tags == {"a", "b"}

RECURSIVE SeqsUpTo(_, _)
SeqsUpTo(S, n) ==
    IF n = 0 THEN {<<>>}
    ELSE LET shorter == SeqsUpTo(S, n - 1)
         IN shorter \cup {Append(s, x) : s \in {t \in shorter : Len(t) = n - 1}, x \in S}

\* A table before its entities are named: its own tag, its columns' and its
\* foreign keys' tags in declaration order.
TableShapes(n) ==
    IF n < 1 THEN {}
    ELSE {[tag |-> t, columns |-> cs, foreign_keys |-> fs] :
            t \in Tags,
            cs \in SeqsUpTo(Tags, n - 1),
            fs \in SeqsUpTo(Tags, n - 1)}

ShapeSize(shape) == 1 + Len(shape.columns) + Len(shape.foreign_keys)

RECURSIVE SchemaShapes(_)
SchemaShapes(n) ==
    {<<>>} \cup
    UNION {{<<t>> \o rest : rest \in SchemaShapes(n - ShapeSize(t))} :
            t \in {s \in TableShapes(n) : ShapeSize(s) <= n}}

\* Tables are identified by name, columns and foreign keys by (table, name).
NameTable(shape, i) ==
    [name |-> i,
     tag |-> shape.tag,
     columns |-> [j \in 1..Len(shape.columns) |->
                    [table |-> i, name |-> j, tag |-> shape.columns[j]]],
     foreign_keys |-> [k \in 1..Len(shape.foreign_keys) |->
                    [table |-> i, name |-> k, tag |-> shape.foreign_keys[k]]]]

Databases == {[i \in 1..Len(s) |-> NameTable(s[i], i)] : s \in SchemaShapes(MaxEntities)}

\* ---------------------------------------------------------------- text

\* A string is a sequence of pieces: single characters, and literal chunks of a
\* format string, each of which holds a character that is not whitespace.
Whitespace == {" ", "\t", "\n"}

\* The characters setter arguments are drawn from.
Chars == {"x", " "}

\* Longest setter argument.
MaxStrLen == 2

Strings == SeqsUpTo(Chars, MaxStrLen)

RECURSIVE trim_start(_)
trim_start(s) ==
    IF s = <<>> THEN s
    ELSE IF Head(s) \in Whitespace THEN trim_start(Tail(s))
    ELSE s

RECURSIVE trim_end(_)
trim_end(s) ==
    IF s = <<>> THEN s
    ELSE IF s[Len(s)] \in Whitespace THEN trim_end(SubSeq(s, 1, Len(s) - 1))
    ELSE s

\* str::trim
trim(s) == trim_end(trim_start(s))

is_empty(s) == Len(s) = 0

\* ---------------------------------------------------------------- diagnostics

None == <<>>

Some(x) == <<x>>

OkOf(value) == [ok |-> TRUE, value |-> value]

\* RuleErrorInfoBuilderError / ConstraintErrorInfoBuilderError
BuilderError(variant) == [variant |-> variant]

MissingAttribute(name) == [variant |-> "MissingAttribute", name |-> name]

\* RuleErrorInfoBuilder::default() (flavour "Rule") and
\* ConstraintErrorInfoBuilder::default() (flavour "Constraint"); the first field
\* is `rule` in the one and `constraint` in the other.
DefaultBuilder(flavour) ==
    [flavour |-> flavour, rule |-> None, object |-> None, message |-> None,
     resolution |-> None]

Flavours == {"Rule", "Constraint"}

\* RuleErrorInfoBuilder::rule / ConstraintErrorInfoBuilder::constraint
builder_rule(self, rule) ==
    IF is_empty(trim(rule))
    THEN Err(BuilderError(IF self.flavour = "Rule" THEN "EmptyRule" ELSE "EmptyConstraint"))
    ELSE OkOf([self EXCEPT !.rule = Some(rule)])

\* Mutant: the object is tested for emptiness without trimming it.
builder_object_untrimmed(self, object) ==
    IF is_empty(object) THEN Err(BuilderError("EmptyObject"))
    ELSE OkOf([self EXCEPT !.object = Some(object)])

builder_object(self, object) ==
    IF is_empty(trim(object)) THEN Err(BuilderError("EmptyObject"))
    ELSE OkOf([self EXCEPT !.object = Some(object)])

\* Mutant: the message is stored trimmed.
builder_message_trimmed(self, message) ==
    IF is_empty(trim(message)) THEN Err(BuilderError("EmptyMessage"))
    ELSE OkOf([self EXCEPT !.message = Some(trim(message))])

builder_message(self, message) ==
    IF is_empty(trim(message)) THEN Err(BuilderError("EmptyMessage"))
    ELSE OkOf([self EXCEPT !.message = Some(message)])

\* Mutant: the optional resolution is stored without being tested.
builder_resolution_unchecked(self, resolution) ==
    OkOf([self EXCEPT !.resolution = Some(resolution)])

builder_resolution(self, resolution) ==
    IF is_empty(trim(resolution)) THEN Err(BuilderError("EmptyResolution"))
    ELSE OkOf([self EXCEPT !.resolution = Some(resolution)])

\* Mutant: the resolution is required like the other three fields.
try_from_requires_resolution(self) ==
    IF self.rule = None
    THEN Err(MissingAttribute(IF self.flavour = "Rule" THEN "rule" ELSE "constraint"))
    ELSE IF self.object = None THEN Err(MissingAttribute("object"))
    ELSE IF self.message = None THEN Err(MissingAttribute("message"))
    ELSE IF self.resolution = None THEN Err(MissingAttribute("resolution"))
    ELSE OkOf([flavour |-> self.flavour,
               rule |-> self.rule[1],
               object |-> self.object[1],
               message |-> self.message[1],
               resolution |-> self.resolution])

try_from_object_first(self) ==
    IF self.object = None THEN Err(MissingAttribute("object"))
    ELSE IF self.message = None THEN Err(MissingAttribute("message"))
    ELSE IF self.rule = None
    THEN Err(MissingAttribute(IF self.flavour = "Rule" THEN "rule" ELSE "constraint"))
    ELSE OkOf([flavour |-> self.flavour,
               rule |-> self.rule[1],
               object |-> self.object[1],
               message |-> self.message[1],
               resolution |-> self.resolution])

\* TryFrom<RuleErrorInfoBuilder> for RuleErrorInfo and its Constraint twin.
try_from(self) ==
    IF self.rule = None
    THEN Err(MissingAttribute(IF self.flavour = "Rule" THEN "rule" ELSE "constraint"))
    ELSE IF self.object = None THEN Err(MissingAttribute("object"))
    ELSE IF self.message = None THEN Err(MissingAttribute("message"))
    ELSE OkOf([flavour |-> self.flavour,
               rule |-> self.rule[1],
               object |-> self.object[1],
               message |-> self.message[1],
               resolution |-> self.resolution])

NoReply == [op |-> "none", result |-> Ok]

\* No setter has taken a value.
NothingPassed == [rule |-> None, object |-> None, message |-> None, resolution |-> None]

\* RuleErrorInfo::builder() / ConstraintErrorInfo::builder()
NewBuilder(flavour) ==
    /\ builder' = Some(DefaultBuilder(flavour))
    /\ reply' = [op |-> "builder", result |-> Ok]
    /\ passed' = NothingPassed
    /\ UNCHANGED <<engine_vars, report>>

\* A setter takes the builder by value: on an error the builder is gone.
Setter(op, arg, result) ==
    /\ builder' = IF result.ok THEN Some(result.value) ELSE None
    /\ reply' = [op |-> op, arg |-> arg, result |-> result]
    /\ passed' = IF result.ok THEN [passed EXCEPT ![op] = Some(arg)] ELSE NothingPassed
    /\ UNCHANGED <<engine_vars, report>>

SetRule(s) == builder # None /\ Setter("rule", s, builder_rule(builder[1], s))

SetObject(s) == builder # None /\ Setter("object", s, builder_object(builder[1], s))

SetMessage(s) == builder # None /\ Setter("message", s, builder_message(builder[1], s))

SetResolution(s) ==
    builder # None /\ Setter("resolution", s, builder_resolution(builder[1], s))

\* builder.try_into(): the builder is consumed whatever the result.
Finalize ==
    /\ builder # None
    /\ builder' = None
    /\ reply' = [op |-> "try_from", of |-> builder[1], result |-> try_from(builder[1])]
    /\ UNCHANGED <<engine_vars, report, passed>>

\* Mutant: a Resolution line is written whether or not there is a resolution.
fmt_always_resolution(self) ==
    <<"Rule: ">> \o self.rule \o <<"\n", "Object: ">> \o self.object
        \o <<"\n", "Message: ">> \o self.message
        \o <<"\n", "Resolution: ">>
        \o (IF self.resolution # None THEN self.resolution[1] ELSE <<>>)

\* impl Display for RuleErrorInfo: the two write! calls, the format string cut
\* into its literal pieces and its newlines.
fmt(self) ==
    <<"Rule: ">> \o self.rule \o <<"\n", "Object: ">> \o self.object
        \o <<"\n", "Message: ">> \o self.message
        \o (IF self.resolution # None
            THEN <<"\n", "Resolution: ">> \o self.resolution[1]
            ELSE <<>>)

\* impl RuleFailureInformation for RuleErrorInfo: rule(), object(), message()
\* and resolution(), the last through Option::as_deref.
Accessors(self) ==
    [rule |-> self.rule,
     object |-> self.object,
     message |-> self.message,
     resolution |-> IF self.resolution = None THEN None ELSE Some(self.resolution[1])]

\* The caller holds a RuleErrorInfo: the one try_into returned, which Display
\* and the accessors only borrow.
Holds == reply.op \in {"try_from", "fmt", "accessors"} /\ reply.result.ok

Held == IF reply.op = "try_from" THEN reply.result.value ELSE reply.of

\* format!("{}", error_info)
Display ==
    /\ Holds
    /\ Held.flavour = "Rule"
    /\ reply' = [op |-> "fmt", of |-> Held, result |-> OkOf(fmt(Held))]
    /\ UNCHANGED <<engine_vars, report, builder, passed>>

\* error_info.rule(), .object(), .message(), .resolution()
Getters ==
    /\ Holds
    /\ Held.flavour = "Rule"
    /\ reply' = [op |-> "accessors", of |-> Held, result |-> OkOf(Accessors(Held))]
    /\ UNCHANGED <<engine_vars, report, builder, passed>>

NoReport == [rule |-> "none", result |-> Ok]

\* ---------------------------------------------------------------- rules

\* The rule objects a caller registers: any implementation of TableRule,
\* ColumnRule or ForeignKeyRule. A rule is a function from the entity to
\* Ok or an Error; `on` is the content it objects to and `how` is whether it
\* reports a violation of its kind or declares itself unapplicable.
RulePool ==
    {[name |-> "Reject", on |-> "a", how |-> "Violation"],
     [name |-> "Refuse", on |-> "b", how |-> "Unapplicable"]}

Info(rule, entity) == [rule |-> rule.name, object |-> entity]

validate_table(rule, db, table) ==
    IF table.tag # rule.on THEN Ok
    ELSE IF rule.how = "Unapplicable" THEN Err(Unapplicable(<<rule.name, "Table", table.name>>))
    ELSE Err(TableError(table, Info(rule, <<table.name>>)))

validate_column(rule, db, column) ==
    IF column.tag # rule.on THEN Ok
    ELSE IF rule.how = "Unapplicable"
         THEN Err(Unapplicable(<<rule.name, "Column", column.table, column.name>>))
    ELSE Err(ColumnError(column, Info(rule, <<column.table, column.name>>)))

validate_foreign_key(rule, db, fk) ==
    IF fk.tag # rule.on THEN Ok
    ELSE IF rule.how = "Unapplicable"
         THEN Err(Unapplicable(<<rule.name, "ForeignKey", fk.table, fk.name>>))
    ELSE Err(ForeignKeyError(fk, Info(rule, <<fk.table, fk.name>>)))

\* ---------------------------------------------------------------- registry

\* The constrainer as the methods see it (&self).
Constrainer == [tables |-> tables, columns |-> columns, foreign_keys |-> foreign_keys]

table_rules(self) == self.tables

column_rules(self) == self.columns

foreign_key_rules(self) == self.foreign_keys

\* ---------------------------------------------------------------- traversal

\* What a validation call did: the Result it returned and, in order, the rule
\* invocations it made.
Outcome(result, applied) == [result |-> result, applied |-> applied]

Invocation(kind, rule, entity) == [kind |-> kind, rule |-> rule, entity |-> entity]

\* r1 ran to its end without an error and r2 ran after it.
AndThen(r1, r2) == Outcome(r2.result, r1.applied \o r2.applied)

\* Mutant: every table rule is invoked and the first error is returned afterwards.
RECURSIVE try_for_each_table_rule_runs_all(_, _, _)
try_for_each_table_rule_runs_all(rules, db, table) ==
    IF rules = <<>> THEN Outcome(Ok, <<>>)
    ELSE LET r == validate_table(Head(rules), db, table)
             call == Outcome(r, <<Invocation("Table", Head(rules), table)>>)
             rest == try_for_each_table_rule_runs_all(Tail(rules), db, table)
         IN IF r.ok THEN AndThen(call, rest)
            ELSE Outcome(r, call.applied \o rest.applied)

\* Iterator::try_for_each over the table rules: stops at the first Err.
RECURSIVE try_for_each_table_rule(_, _, _)
try_for_each_table_rule(rules, db, table) ==
    IF rules = <<>> THEN Outcome(Ok, <<>>)
    ELSE LET r == validate_table(Head(rules), db, table)
             call == Outcome(r, <<Invocation("Table", Head(rules), table)>>)
         IN IF r.ok THEN AndThen(call, try_for_each_table_rule(Tail(rules), db, table))
            ELSE call

RECURSIVE try_for_each_column_rule(_, _, _)
try_for_each_column_rule(rules, db, column) ==
    IF rules = <<>> THEN Outcome(Ok, <<>>)
    ELSE LET r == validate_column(Head(rules), db, column)
             call == Outcome(r, <<Invocation("Column", Head(rules), column)>>)
         IN IF r.ok THEN AndThen(call, try_for_each_column_rule(Tail(rules), db, column))
            ELSE call

\* Mutant: a rule that declares itself unapplicable counts as passed.
RECURSIVE try_for_each_foreign_key_rule_skips_unapplicable(_, _, _)
try_for_each_foreign_key_rule_skips_unapplicable(rules, db, fk) ==
    IF rules = <<>> THEN Outcome(Ok, <<>>)
    ELSE LET r == validate_foreign_key(Head(rules), db, fk)
             call == Outcome(r, <<Invocation("ForeignKey", Head(rules), fk)>>)
             rest == try_for_each_foreign_key_rule_skips_unapplicable(Tail(rules), db, fk)
         IN IF r.ok THEN AndThen(call, rest)
            ELSE IF r.error.variant = "Unapplicable" THEN AndThen(Outcome(Ok, call.applied), rest)
            ELSE call

RECURSIVE try_for_each_foreign_key_rule(_, _, _)
try_for_each_foreign_key_rule(rules, db, fk) ==
    IF rules = <<>> THEN Outcome(Ok, <<>>)
    ELSE LET r == validate_foreign_key(Head(rules), db, fk)
             call == Outcome(r, <<Invocation("ForeignKey", Head(rules), fk)>>)
         IN IF r.ok THEN AndThen(call, try_for_each_foreign_key_rule(Tail(rules), db, fk))
            ELSE call

encounter_table(self, db, table) == try_for_each_table_rule(table_rules(self), db, table)

\* Mutant: encounter_column walks every column of the column's table.
encounter_column_whole_table(self, db, column) ==
    LET RECURSIVE walk(_)
        walk(cols) ==
            IF cols = <<>> THEN Outcome(Ok, <<>>)
            ELSE LET r == try_for_each_column_rule(column_rules(self), db, Head(cols))
                 IN IF r.result.ok THEN AndThen(r, walk(Tail(cols))) ELSE r
    IN walk(db[column.table].columns)

encounter_column(self, db, column) == try_for_each_column_rule(column_rules(self), db, column)

encounter_foreign_key(self, db, fk) ==
    try_for_each_foreign_key_rule(foreign_key_rules(self), db, fk)

\* for column in table.columns(database) { self.encounter_column(database, column)?; }
RECURSIVE for_each_column(_, _, _)
for_each_column(self, db, cols) ==
    IF cols = <<>> THEN Outcome(Ok, <<>>)
    ELSE LET r == encounter_column(self, db, Head(cols))
         IN IF r.result.ok THEN AndThen(r, for_each_column(self, db, Tail(cols)))
            ELSE r

\* Mutant: the result of encounter_foreign_key is dropped (no `?`).
RECURSIVE for_each_foreign_key_swallows(_, _, _)
for_each_foreign_key_swallows(self, db, fks) ==
    IF fks = <<>> THEN Outcome(Ok, <<>>)
    ELSE LET r == encounter_foreign_key(self, db, Head(fks))
         IN AndThen(Outcome(Ok, r.applied), for_each_foreign_key_swallows(self, db, Tail(fks)))

\* for foreign_key in table.foreign_keys(database) { self.encounter_foreign_key(..)?; }
RECURSIVE for_each_foreign_key(_, _, _)
for_each_foreign_key(self, db, fks) ==
    IF fks = <<>> THEN Outcome(Ok, <<>>)
    ELSE LET r == encounter_foreign_key(self, db, Head(fks))
         IN IF r.result.ok THEN AndThen(r, for_each_foreign_key(self, db, Tail(fks)))
            ELSE r

\* Mutant: the columns are visited before the table itself.
visit_table_columns_first(self, db, table) ==
    LET c == for_each_column(self, db, table.columns)
    IN IF ~c.result.ok THEN c
       ELSE LET t == encounter_table(self, db, table)
            IN IF ~t.result.ok THEN AndThen(c, t)
               ELSE AndThen(c, AndThen(t, for_each_foreign_key(self, db, table.foreign_keys)))

\* The body of validate_schema's loop for one table.
visit_table(self, db, table) ==
    LET t == encounter_table(self, db, table)
    IN IF ~t.result.ok THEN t
       ELSE LET c == for_each_column(self, db, table.columns)
            IN IF ~c.result.ok THEN AndThen(t, c)
               ELSE AndThen(t, AndThen(c, for_each_foreign_key(self, db, table.foreign_keys)))

\* Mutant: the pass goes on after an error and returns the last error it met.
RECURSIVE for_each_table_last_error(_, _, _)
for_each_table_last_error(self, db, tabs) ==
    IF tabs = <<>> THEN Outcome(Ok, <<>>)
    ELSE LET r == visit_table(self, db, Head(tabs))
             rest == for_each_table_last_error(self, db, Tail(tabs))
         IN IF rest.result.ok THEN Outcome(r.result, r.applied \o rest.applied)
            ELSE AndThen(r, rest)

\* for table in database.tables() { ... }
RECURSIVE for_each_table(_, _, _)
for_each_table(self, db, tabs) ==
    IF tabs = <<>> THEN Outcome(Ok, <<>>)
    ELSE LET r == visit_table(self, db, Head(tabs))
         IN IF r.result.ok THEN AndThen(r, for_each_table(self, db, Tail(tabs)))
            ELSE r

\* Mutant: a schema without tables is refused.
validate_schema_refuses_empty(self, db) ==
    IF db = <<>> THEN Outcome(Err(Unapplicable(<<"empty schema">>)), <<>>)
    ELSE for_each_table(self, db, db)

validate_schema(self, db) == for_each_table(self, db, db)

\* ---------------------------------------------------------------- actions

NoCall == [op |-> "none", arg |-> <<>>, result |-> Ok, applied |-> <<>>]

Call(op, arg, outcome) ==
    [op |-> op, arg |-> arg, result |-> outcome.result, applied |-> outcome.applied]

CanRegister == Len(registered) < MaxRegistered

register_table_rule(rule) ==
    /\ CanRegister
    /\ tables' = Append(tables, rule)
    /\ registered' = Append(registered, [kind |-> "Table", rule |-> rule])
    /\ last' = NoCall
    /\ UNCHANGED <<database, columns, foreign_keys, builder_vars, report>>

\* Mutant: a rule that is already registered is not registered again.
register_column_rule_dedup(rule) ==
    /\ CanRegister
    /\ columns' = IF \E n \in DOMAIN columns : columns[n] = rule
                  THEN columns ELSE Append(columns, rule)
    /\ registered' = Append(registered, [kind |-> "Column", rule |-> rule])
    /\ last' = NoCall
    /\ UNCHANGED <<database, tables, foreign_keys, builder_vars, report>>

register_column_rule(rule) ==
    /\ CanRegister
    /\ columns' = Append(columns, rule)
    /\ registered' = Append(registered, [kind |-> "Column", rule |-> rule])
    /\ last' = NoCall
    /\ UNCHANGED <<database, tables, foreign_keys, builder_vars, report>>

register_foreign_key_rule(rule) ==
    /\ CanRegister
    /\ foreign_keys' = Append(foreign_keys, rule)
    /\ registered' = Append(registered, [kind |-> "ForeignKey", rule |-> rule])
    /\ last' = NoCall
    /\ UNCHANGED <<database, tables, columns, builder_vars, report>>

\* The rule structs that convert into a constrainer, each with the behaviour
\* of one of the rule objects.
RuleStructs ==
    {"LowercaseTableName",
     "NoForbiddenColumnInExtension",
     "NoNegationCheckRule",
     "NoRustKeywordTableName",
     "NoTautologicalCheckRule",
     "PoliciesRequireRowLevelSecurity",
     "SnakeCaseTableName",
     "UniqueCheckRule",
     "UniqueUniqueIndex",
     "LowercaseColumnName",
     "NoRustKeywordColumnName",
     "NoSurrogatePrimaryKeyInExtension",
     "NonCompositePrimaryKeyNamedId",
     "PastTimeColumnRule",
     "SingularColumnName",
     "SnakeCaseColumnName",
     "TextualColumnRule",
     "CompatibleForeignKey",
     "NoRustKeywordForeignKeyName",
     "ReferencesUniqueIndex"}

Constraints == [type : RuleStructs, rule : RulePool]

\* Mutant: every conversion registers its rule as a table rule.
from_as_table_rule(constraint) ==
    [tables |-> <<constraint.rule>>, columns |-> <<>>, foreign_keys |-> <<>>]

\* impl From<Rule<DB>> for GenericConstrainer<DB>, one impl per rule struct:
\* GenericConstrainer::default(), then the register call that impl makes.
from(constraint) ==
    LET constrainer == [tables |-> <<>>, columns |-> <<>>, foreign_keys |-> <<>>]
        with_table_rule == [constrainer EXCEPT !.tables = Append(@, constraint.rule)]
        with_column_rule == [constrainer EXCEPT !.columns = Append(@, constraint.rule)]
        with_foreign_key_rule ==
            [constrainer EXCEPT !.foreign_keys = Append(@, constraint.rule)]
    IN CASE constraint.type = "LowercaseTableName" -> with_table_rule
         [] constraint.type = "NoForbiddenColumnInExtension" -> with_table_rule
         [] constraint.type = "NoNegationCheckRule" -> with_table_rule
         [] constraint.type = "NoRustKeywordTableName" -> with_table_rule
         [] constraint.type = "NoTautologicalCheckRule" -> with_table_rule
         [] constraint.type = "PoliciesRequireRowLevelSecurity" -> with_table_rule
         [] constraint.type = "SnakeCaseTableName" -> with_table_rule
         [] constraint.type = "UniqueCheckRule" -> with_table_rule
         [] constraint.type = "UniqueUniqueIndex" -> with_table_rule
         [] constraint.type = "LowercaseColumnName" -> with_column_rule
         [] constraint.type = "NoRustKeywordColumnName" -> with_column_rule
         [] constraint.type = "NoSurrogatePrimaryKeyInExtension" -> with_column_rule
         [] constraint.type = "NonCompositePrimaryKeyNamedId" -> with_column_rule
         [] constraint.type = "PastTimeColumnRule" -> with_column_rule
         [] constraint.type = "SingularColumnName" -> with_column_rule
         [] constraint.type = "SnakeCaseColumnName" -> with_column_rule
         [] constraint.type = "TextualColumnRule" -> with_column_rule
         [] constraint.type = "CompatibleForeignKey" -> with_foreign_key_rule
         [] constraint.type = "NoRustKeywordForeignKeyName" -> with_foreign_key_rule
         [] constraint.type = "ReferencesUniqueIndex" -> with_foreign_key_rule

\* let constrainer: GenericConstrainer<DB> = constraint.into();
From(constraint) ==
    /\ tables' = from(constraint).tables
    /\ columns' = from(constraint).columns
    /\ foreign_keys' = from(constraint).foreign_keys
    /\ registered' =
            [n \in 1..Len(from(constraint).tables) |-> [kind |-> "Table", rule |-> constraint.rule]]
            \o [n \in 1..Len(from(constraint).columns) |->
                    [kind |-> "Column", rule |-> constraint.rule]]
            \o [n \in 1..Len(from(constraint).foreign_keys) |->
                    [kind |-> "ForeignKey", rule |-> constraint.rule]]
    /\ last' = Call("from", constraint, Outcome(Ok, <<>>))
    /\ UNCHANGED <<database, builder_vars, report>>

\* Mutant: the pass takes the table rules out of the registry as it runs them.
ValidateSchema_drains ==
    /\ last' = Call("validate_schema", <<>>, validate_schema(Constrainer, database))
    /\ tables' = <<>>
    /\ UNCHANGED <<database, columns, foreign_keys, registered, builder_vars, report>>

ValidateSchema ==
    /\ last' = Call("validate_schema", <<>>, validate_schema(Constrainer, database))
    /\ UNCHANGED <<database, tables, columns, foreign_keys, registered, builder_vars, report>>

EncounterTable(i) ==
    /\ last' = Call("encounter_table", database[i],
                    encounter_table(Constrainer, database, database[i]))
    /\ UNCHANGED <<database, tables, columns, foreign_keys, registered, builder_vars, report>>

EncounterColumn(i, j) ==
    /\ last' = Call("encounter_column", database[i].columns[j],
                    encounter_column(Constrainer, database, database[i].columns[j]))
    /\ UNCHANGED <<database, tables, columns, foreign_keys, registered, builder_vars, report>>

EncounterForeignKey(i, k) ==
    /\ last' = Call("encounter_foreign_key", database[i].foreign_keys[k],
                    encounter_foreign_key(Constrainer, database, database[i].foreign_keys[k]))
    /\ UNCHANGED <<database, tables, columns, foreign_keys, registered, builder_vars, report>>

\* GenericConstrainer::default() and a schema to validate.
Init ==
    /\ database \in Databases
    /\ tables = <<>>
    /\ columns = <<>>
    /\ foreign_keys = <<>>
    /\ registered = <<>>
    /\ last = NoCall
    /\ builder = <<>>
    /\ reply = NoReply
    /\ passed = NothingPassed
    /\ report = NoReport

Next ==
    \/ \E rule \in RulePool : register_table_rule(rule)
    \/ \E rule \in RulePool : register_column_rule(rule)
    \/ \E rule \in RulePool : register_foreign_key_rule(rule)
    \/ \E constraint \in Constraints : From(constraint)
    \/ ValidateSchema
    \/ \E i \in DOMAIN database : EncounterTable(i)
    \/ \E i \in DOMAIN database : \E j \in DOMAIN database[i].columns : EncounterColumn(i, j)
    \/ \E i \in DOMAIN database : \E k \in DOMAIN database[i].foreign_keys :
            EncounterForeignKey(i, k)

Spec == Init /\ [][Next]_vars

\* ---------------------------------------------------------------- claims: traversal

\* Every (entity, rule) pair validate_schema could apply, as
\* <<table index, phase, entity index, rule index>>; phase 0 is the table
\* itself, 1 its columns, 2 its foreign keys.
Applications(self, db) ==
    {<<i, 0, 0, r>> : i \in DOMAIN db, r \in DOMAIN self.tables}
    \cup UNION {{<<i, 1, j, r>> : j \in DOMAIN db[i].columns, r \in DOMAIN self.columns} :
                  i \in DOMAIN db}
    \cup UNION {{<<i, 2, k, r>> : k \in DOMAIN db[i].foreign_keys,
                                   r \in DOMAIN self.foreign_keys} : i \in DOMAIN db}

AppEntity(db, a) ==
    IF a[2] = 0 THEN db[a[1]]
    ELSE IF a[2] = 1 THEN db[a[1]].columns[a[3]]
    ELSE db[a[1]].foreign_keys[a[3]]

\* What the rule of application `a` answers on its entity.
AppVerdict(self, db, a) ==
    IF a[2] = 0 THEN validate_table(self.tables[a[4]], db, AppEntity(db, a))
    ELSE IF a[2] = 1 THEN validate_column(self.columns[a[4]], db, AppEntity(db, a))
    ELSE validate_foreign_key(self.foreign_keys[a[4]], db, AppEntity(db, a))

\* Traversal order: tables, then phase, then entity, then registration order.
Before(a, b) ==
    \/ a[1] < b[1]
    \/ a[1] = b[1] /\ a[2] < b[2]
    \/ a[1] = b[1] /\ a[2] = b[2] /\ a[3] < b[3]
    \/ a[1] = b[1] /\ a[2] = b[2] /\ a[3] = b[3] /\ a[4] < b[4]

Failing(self, db) == {a \in Applications(self, db) : ~AppVerdict(self, db, a).ok}

Earliest(S) == CHOOSE a \in S : \A b \in S : a = b \/ Before(a, b)

ValidatedSchema == last.op = "validate_schema"

\* C1: validate_schema is fail-fast: when at least one application of a rule to
\* an entity fails, the call returns exactly the Error of the earliest failing
\* application in traversal order (tables; per table its table rules, then each
\* column with the column rules, then each foreign key with the foreign-key
\* rules; rules in registration order).
C1_ReturnsEarliestFailure ==
    (ValidatedSchema /\ Failing(Constrainer, database) # {}) =>
        last.result = AppVerdict(Constrainer, database,
                                 Earliest(Failing(Constrainer, database)))

\* A pass in which two applications fail with different errors and the later of
\* them is a table rule on a later table.
C1_Witness ==
    /\ ValidatedSchema
    /\ ~last.result.ok
    /\ \E a, b \in Failing(Constrainer, database) :
          /\ Before(a, b)
          /\ a[2] # 0
          /\ b[2] = 0
          /\ AppVerdict(Constrainer, database, a) # AppVerdict(Constrainer, database, b)

\* Where an invocation of the log sits in the schema.
PhaseOf(call) == IF call.kind = "Table" THEN 0 ELSE IF call.kind = "Column" THEN 1 ELSE 2

TableOf(call) == IF call.kind = "Table" THEN call.entity.name ELSE call.entity.table

\* The invocations of the log made on the entities of table i in the given phase.
CallsOn(i, phase) ==
    {n \in DOMAIN last.applied :
        TableOf(last.applied[n]) = i /\ PhaseOf(last.applied[n]) = phase}

\* C2: within validate_schema the table rules of a table are all applied before
\* any column rule is applied to one of its columns, the column rules are applied
\* to all its columns before any foreign-key rule is applied to one of its
\* foreign keys, and the three phases of a table are over before a rule is
\* applied to the next table. In particular a Column error is returned only
\* after every table rule has been applied to that column's table.
C2_PhasesInOrder ==
    ValidatedSchema =>
        /\ \A m, n \in DOMAIN last.applied :
              m < n =>
                \/ TableOf(last.applied[m]) < TableOf(last.applied[n])
                \/ /\ TableOf(last.applied[m]) = TableOf(last.applied[n])
                   /\ PhaseOf(last.applied[m]) <= PhaseOf(last.applied[n])
        /\ \A i \in DOMAIN database :
              /\ CallsOn(i, 1) # {} => Cardinality(CallsOn(i, 0)) = Len(tables)
              /\ CallsOn(i, 2) # {} =>
                    /\ Cardinality(CallsOn(i, 0)) = Len(tables)
                    /\ Cardinality(CallsOn(i, 1)) = Len(columns) * Len(database[i].columns)
              /\ (\E n \in DOMAIN last.applied : TableOf(last.applied[n]) > i) =>
                    /\ Cardinality(CallsOn(i, 0)) = Len(tables)
                    /\ Cardinality(CallsOn(i, 1)) = Len(columns) * Len(database[i].columns)
                    /\ Cardinality(CallsOn(i, 2)) =
                          Len(foreign_keys) * Len(database[i].foreign_keys)
        /\ (~last.result.ok /\ last.result.error.variant = "Column") =>
              Cardinality(CallsOn(last.result.error.entity.table, 0)) = Len(tables)

\* The scenario of the claim: a table rule that passes, a column rule that fails
\* on a column, a Column error returned after the table rule was applied.
C2_Witness ==
    /\ ValidatedSchema
    /\ Len(tables) > 0
    /\ ~last.result.ok
    /\ last.result.error.variant = "Column"
    /\ CallsOn(last.result.error.entity.table, 0) # {}

\* What the rule of an invocation of the log answered.
CallVerdict(call) ==
    IF call.kind = "Table" THEN validate_table(call.rule, database, call.entity)
    ELSE IF call.kind = "Column" THEN validate_column(call.rule, database, call.entity)
    ELSE validate_foreign_key(call.rule, database, call.entity)

\* The invocations of the log made on one entity, in log order.
CallsOnEntity(kind, entity) ==
    SelectSeq(last.applied, LAMBDA c : c.kind = kind /\ c.entity = entity)

RulesOf(calls) == [n \in DOMAIN calls |-> calls[n].rule]

\* C3: once a rule application returns an error no further rule is invoked in
\* that call: the failing invocation is the last one made. A pass without a
\* failure invokes each registered rule exactly once (once per registration) on
\* each entity of its kind, and then ends.
C3_StopsAtFirstError ==
    ValidatedSchema =>
        /\ \A n \in DOMAIN last.applied :
              ~CallVerdict(last.applied[n]).ok => n = Len(last.applied)
        /\ ~last.result.ok =>
              /\ last.applied # <<>>
              /\ CallVerdict(last.applied[Len(last.applied)]) = last.result
        /\ last.result.ok =>
              /\ Len(last.applied) = Cardinality(Applications(Constrainer, database))
              /\ \A i \in DOMAIN database :
                    /\ RulesOf(CallsOnEntity("Table", database[i])) = tables
                    /\ \A j \in DOMAIN database[i].columns :
                          RulesOf(CallsOnEntity("Column", database[i].columns[j])) = columns
                    /\ \A k \in DOMAIN database[i].foreign_keys :
                          RulesOf(CallsOnEntity("ForeignKey", database[i].foreign_keys[k]))
                              = foreign_keys

\* A pass that stopped at an error although applications were still to be made.
C3_Witness ==
    /\ ValidatedSchema
    /\ ~last.result.ok
    /\ Len(last.applied) >= 2
    /\ Len(last.applied) < Cardinality(Applications(Constrainer, database))

\* C4: validate_schema returns Ok(()) if and only if every registered table rule
\* passes on every table, every column rule on every column of every table and
\* every foreign-key rule on every foreign key of every table.
C4_OkIffAllPass ==
    ValidatedSchema =>
        (last.result = Ok <=>
            /\ \A i \in DOMAIN database :
                  /\ \A r \in DOMAIN tables : validate_table(tables[r], database, database[i]).ok
                  /\ \A j \in DOMAIN database[i].columns : \A r \in DOMAIN columns :
                        validate_column(columns[r], database, database[i].columns[j]).ok
                  /\ \A k \in DOMAIN database[i].foreign_keys : \A r \in DOMAIN foreign_keys :
                        validate_foreign_key(foreign_keys[r], database,
                                             database[i].foreign_keys[k]).ok)

\* A successful pass over a table with a column and a foreign key, with rules of
\* every kind registered.
C4_Witness ==
    /\ ValidatedSchema
    /\ last.result = Ok
    /\ Len(tables) > 0 /\ Len(columns) > 0 /\ Len(foreign_keys) > 0
    /\ \E i \in DOMAIN database :
          database[i].columns # <<>> /\ database[i].foreign_keys # <<>>

\* C5: on a schema with zero tables validate_schema returns success and invokes
\* no rule, whatever rules are registered.
C5_EmptySchemaPasses ==
    (ValidatedSchema /\ database = <<>>) => (last.result = Ok /\ last.applied = <<>>)

\* The empty schema validated by a registry whose table rules between them
\* reject every table.
C5_Witness ==
    /\ ValidatedSchema
    /\ database = <<>>
    /\ \A t \in Tags : \E r \in DOMAIN tables : tables[r].on = t
    /\ Len(columns) > 0

\* ---------------------------------------------------------------- claims: registry

\* The rules the register_* calls of one kind were given, in call order.
RegisteredOf(kind) ==
    LET calls == SelectSeq(registered, LAMBDA c : c.kind = kind)
    IN [n \in DOMAIN calls |-> calls[n].rule]

\* C6: after any sequence of register_* calls, table_rules(), column_rules() and
\* foreign_key_rules() each yield exactly the rules registered for that kind, in
\* registration order, duplicates included (so a register call of one kind
\* leaves the other two collections as they were), and a rule registered twice
\* is applied twice.
C6_RegistrationOrderKept ==
    /\ table_rules(Constrainer) = RegisteredOf("Table")
    /\ column_rules(Constrainer) = RegisteredOf("Column")
    /\ foreign_key_rules(Constrainer) = RegisteredOf("ForeignKey")
    /\ (last.op = "encounter_column" /\ last.result.ok) =>
          RulesOf(last.applied) = RegisteredOf("Column")

\* The same column rule registered twice, after a table rule, and applied twice.
C6_Witness ==
    /\ Len(registered) = 3
    /\ registered[1].kind = "Table"
    /\ registered[2].kind = "Column"
    /\ registered[3] = registered[2]
    /\ last.op = "encounter_column"
    /\ Len(last.applied) = 2

\* What an encounter_* call may do: apply the rules of its kind, in registration
\* order, to the entity it was given, up to and including the first that fails.
EncounterScoped(kind, rules) ==
    /\ \A n \in DOMAIN last.applied :
          /\ last.applied[n].kind = kind
          /\ last.applied[n].entity = last.arg
          /\ n <= Len(rules)
          /\ last.applied[n].rule = rules[n]
          /\ ~CallVerdict(last.applied[n]).ok =>
                (n = Len(last.applied) /\ last.result = CallVerdict(last.applied[n]))
    /\ last.result.ok => Len(last.applied) = Len(rules)

\* C7: encounter_table applies only the table rules, to the one table given, in
\* registration order and stopping at the first error; encounter_column does so
\* with the column rules on the one column, encounter_foreign_key with the
\* foreign-key rules on the one foreign key. None visits another entity.
C7_EncounterOneKindOneEntity ==
    /\ last.op = "encounter_table" => EncounterScoped("Table", tables)
    /\ last.op = "encounter_column" => EncounterScoped("Column", columns)
    /\ last.op = "encounter_foreign_key" => EncounterScoped("ForeignKey", foreign_keys)

\* encounter_column on the first of two columns of a table, with a table rule
\* registered too, and every column rule passing.
C7_Witness ==
    /\ last.op = "encounter_column"
    /\ last.result.ok
    /\ Len(columns) > 0
    /\ Len(tables) > 0
    /\ last.arg.name = 1
    /\ Len(database[last.arg.table].columns) >= 2

\* The applications an entry point covers.
InScope(a) ==
    \/ last.op = "validate_schema"
    \/ last.op = "encounter_table" /\ a[2] = 0 /\ AppEntity(database, a) = last.arg
    \/ last.op = "encounter_column" /\ a[2] = 1 /\ AppEntity(database, a) = last.arg
    \/ last.op = "encounter_foreign_key" /\ a[2] = 2 /\ AppEntity(database, a) = last.arg

IsUnapplicable(result) == ~result.ok /\ result.error.variant = "Unapplicable"

\* C8: a rule that returns Error::Unapplicable stops the traversal like a
\* violation does: validate_schema and the encounter_* entry points invoke no
\* rule after it and return that error, and a call that covers an application
\* answering Unapplicable never returns Ok.
C8_UnapplicableAborts ==
    /\ \A n \in DOMAIN last.applied :
          IsUnapplicable(CallVerdict(last.applied[n])) =>
              (n = Len(last.applied) /\ last.result = CallVerdict(last.applied[n]))
    /\ (\E a \in Applications(Constrainer, database) :
            InScope(a) /\ IsUnapplicable(AppVerdict(Constrainer, database, a)))
          => ~last.result.ok

\* A pass that a foreign-key rule ended with Unapplicable after other rules had
\* passed.
C8_Witness ==
    /\ ValidatedSchema
    /\ IsUnapplicable(last.result)
    /\ Len(last.applied) >= 2
    /\ last.applied[Len(last.applied)].kind = "ForeignKey"

\* ---------------------------------------------------------------- the builder alone

BuilderInit ==
    /\ database = <<>>
    /\ tables = <<>>
    /\ columns = <<>>
    /\ foreign_keys = <<>>
    /\ registered = <<>>
    /\ last = NoCall
    /\ builder = None
    /\ reply = NoReply
    /\ passed = NothingPassed
    /\ report = NoReport

BuilderNext ==
    \/ \E f \in Flavours : NewBuilder(f)
    \/ \E s \in Strings : SetRule(s)
    \/ \E s \in Strings : SetObject(s)
    \/ \E s \in Strings : SetMessage(s)
    \/ \E s \in Strings : SetResolution(s)
    \/ Finalize
    \/ Display
    \/ Getters

BuilderSpec == BuilderInit /\ [][BuilderNext]_vars

\* ---------------------------------------------------------------- claims: builder

Blank(s) == is_empty(trim(s))

Finalized == reply.op = "try_from" /\ reply.result.ok

SetterNames == {"rule", "object", "message", "resolution"}

\* The Empty* variant that names a field; the first field of a
\* ConstraintErrorInfoBuilder is `constraint`.
EmptyOf(field, flavour) ==
    CASE field = "rule" -> IF flavour = "Rule" THEN "EmptyRule" ELSE "EmptyConstraint"
      [] field = "object" -> "EmptyObject"
      [] field = "message" -> "EmptyMessage"
      [] field = "resolution" -> "EmptyResolution"

\* C11: a setter called with a string that is empty or all whitespace returns
\* the Empty* error of its own field and no builder is left; called with any
\* other string it returns the builder it was called on with that one field set
\* to the string as given.
C11_SetterRejectsBlankOnly ==
    [][reply'.op \in SetterNames =>
        IF Blank(reply'.arg)
        THEN /\ reply'.result =
                    Err(BuilderError(EmptyOf(reply'.op, builder[1].flavour)))
             /\ builder' = None
        ELSE /\ reply'.result = OkOf([builder[1] EXCEPT ![reply'.op] = Some(reply'.arg)])
             /\ builder' = Some(reply'.result.value)]_vars

\* A setter refused a string of two blanks, and the builder is gone.
C11_Witness ==
    /\ reply.op = "message"
    /\ reply.arg = <<" ", " ">>
    /\ ~reply.result.ok
    /\ builder = None

\* C12: finalizing fails, with MissingAttribute, exactly when one of rule,
\* object and message was never set on the builder; a builder with those three
\* set and no resolution finalizes to a diagnostic without resolution.
C12_MissingAttributeIffUnset ==
    reply.op = "try_from" =>
        /\ ~reply.result.ok <=>
                \E field \in {"rule", "object", "message"} : passed[field] = None
        /\ ~reply.result.ok => reply.result.error.variant = "MissingAttribute"
        /\ reply.result.ok /\ passed.resolution = None =>
                reply.result.value.resolution = None

\* A builder finalized with its three required fields and no resolution.
C12_Witness ==
    /\ Finalized
    /\ passed.resolution = None
    /\ passed.rule # None /\ passed.object # None /\ passed.message # None

\* C13: the text of a RuleErrorInfo is the lines "Rule: <rule>",
\* "Object: <object>" and "Message: <message>" joined by single newlines,
\* followed by a newline and "Resolution: <resolution>" exactly when there is a
\* resolution; nothing follows the last line.
C13_DisplayLayout ==
    reply.op = "fmt" =>
        LET info == reply.of
            three == <<"Rule: ">> \o info.rule \o <<"\n">>
                        \o <<"Object: ">> \o info.object \o <<"\n">>
                        \o <<"Message: ">> \o info.message
        IN  reply.result.value =
                IF info.resolution = None
                THEN three
                ELSE three \o <<"\n">> \o <<"Resolution: ">> \o info.resolution[1]

\* A diagnostic without resolution was displayed.
C13_Witness == reply.op = "fmt" /\ reply.of.resolution = None

\* C14: the accessors of a finalized RuleErrorInfo return the last values
\* passed to the setters, unmodified, and resolution() returns None when the
\* resolution setter was never called.
C14_AccessorsRoundTrip ==
    reply.op = "accessors" =>
        /\ Some(reply.result.value.rule) = passed.rule
        /\ Some(reply.result.value.object) = passed.object
        /\ Some(reply.result.value.message) = passed.message
        /\ reply.result.value.resolution = passed.resolution

\* The accessors returned a message that starts with whitespace.
C14_Witness ==
    /\ reply.op = "accessors"
    /\ Head(reply.result.value.message) \in Whitespace
    /\ reply.result.value.resolution = None

\* C10: whatever setters were called, in whatever order and however often,
\* before the builder is finalized, a RuleErrorInfo (or ConstraintErrorInfo) that
\* comes out has a rule, an object and a message that are not empty after
\* trimming, and a resolution that is absent or not empty after trimming.
C10_NoBlankDiagnostic ==
    Finalized =>
        /\ ~Blank(reply.result.value.rule)
        /\ ~Blank(reply.result.value.object)
        /\ ~Blank(reply.result.value.message)
        /\ \/ reply.result.value.resolution = None
           \/ ~Blank(reply.result.value.resolution[1])

\* A diagnostic produced with a resolution, from values that carry whitespace
\* around their text.
C10_Witness ==
    /\ Finalized
    /\ reply.result.value.resolution # None
    /\ Head(reply.result.value.object) \in Whitespace
    /\ reply.result.value.message[Len(reply.result.value.message)] \in Whitespace

\* ---------------------------------------------------------------- text in rules

\* Names and expressions are sequences of characters; the literal parts of a
\* format string are single elements of the sequence, written without the
\* backquotes some of the source's messages put around SQL and names.
Alphabet ==
    <<"a", "b", "c", "d", "e", "f", "g", "h", "i", "j", "k", "l", "m",
      "n", "o", "p", "q", "r", "s", "t", "u", "v", "w", "x", "y", "z">>

Capitals ==
    <<"A", "B", "C", "D", "E", "F", "G", "H", "I", "J", "K", "L", "M",
      "N", "O", "P", "Q", "R", "S", "T", "U", "V", "W", "X", "Y", "Z">>

Digits == <<"0", "1", "2", "3", "4", "5", "6", "7", "8", "9">>

Range(s) == {s[i] : i \in DOMAIN s}

\* char::is_lowercase, char::is_ascii_uppercase, char::is_alphabetic
is_lowercase(c) == c \in Range(Alphabet)

is_ascii_uppercase(c) == c \in Range(Capitals)

is_alphabetic(c) == is_lowercase(c) \/ is_ascii_uppercase(c)

is_alphanumeric(c) == is_alphabetic(c) \/ c \in Range(Digits)

\* str::to_lowercase
to_lowercase(s) ==
    [i \in DOMAIN s |->
        IF is_ascii_uppercase(s[i])
        THEN Alphabet[CHOOSE k \in DOMAIN Capitals : Capitals[k] = s[i]]
        ELSE s[i]]

\* str::contains
contains(s, pattern) ==
    \E i \in 0..(Len(s) - Len(pattern)) : SubSeq(s, i + 1, i + Len(pattern)) = pattern

\* str::ends_with
ends_with(s, suffix) ==
    /\ Len(suffix) <= Len(s)
    /\ SubSeq(s, Len(s) - Len(suffix) + 1, Len(s)) = suffix

\* str::rfind for one character: the last position of c in s, 0 for None.
rfind(s, c) ==
    LET found == {i \in DOMAIN s : s[i] = c}
    IN IF found = {} THEN 0 ELSE CHOOSE i \in found : \A j \in found : j <= i

\* [String]::join
RECURSIVE join(_, _)
join(strings, separator) ==
    IF strings = <<>> THEN <<>>
    ELSE IF Len(strings) = 1 THEN strings[1]
    ELSE strings[1] \o separator \o join(Tail(strings), separator)

\* The order of characters, for the comparison of expressions.
Collation ==
    <<" ", "'", "(", ")", ",", ".">> \o Digits \o <<"<", "=", ">">> \o Capitals
        \o <<"_">> \o Alphabet

Code(c) == CHOOSE i \in DOMAIN Collation : Collation[i] = c

\* Ord for str: lexicographic.
RECURSIVE str_le(_, _)
str_le(a, b) ==
    IF a = <<>> THEN TRUE
    ELSE IF b = <<>> THEN FALSE
    ELSE IF a[1] = b[1] THEN str_le(Tail(a), Tail(b))
    ELSE Code(a[1]) < Code(b[1])

\* heck's to_snake_case: words are cut at every character that is not
\* alphanumeric, between a lowercase and an uppercase letter, and before the
\* last capital of a run of capitals that a lowercase letter follows; the words
\* are lowercased and joined by single underscores.
is_boundary(s, i) ==
    \/ is_lowercase(s[i - 1]) /\ is_ascii_uppercase(s[i])
    \/ /\ is_ascii_uppercase(s[i - 1])
       /\ is_ascii_uppercase(s[i])
       /\ i < Len(s)
       /\ is_lowercase(s[i + 1])

RECURSIVE snake_from(_, _, _)
snake_from(s, i, out) ==
    IF i > Len(s) THEN out
    ELSE IF ~is_alphanumeric(s[i]) THEN snake_from(s, i + 1, out)
    ELSE LET cut == out # <<>> /\ (~is_alphanumeric(s[i - 1]) \/ is_boundary(s, i))
         IN snake_from(s, i + 1,
                       out \o (IF cut THEN <<"_">> ELSE <<>>) \o to_lowercase(<<s[i]>>))

to_snake_case(s) == snake_from(s, 1, <<>>)

\* inflection_rs::inflection::singularize on the words the model uses: a
\* plural in -s loses its s, every other word is its own singular.
singularize(word) ==
    IF /\ Len(word) > 1
       /\ ends_with(word, <<"s">>)
       /\ ~ends_with(word, <<"s", "s">>)
    THEN SubSeq(word, 1, Len(word) - 1)
    ELSE word

RUST_KEYWORDS ==
    {<<"a", "b", "s", "t", "r", "a", "c", "t">>, <<"a", "s">>, <<"a", "s", "y", "n", "c">>, <<"a", "w", "a", "i", "t">>, <<"b", "e", "c", "o", "m", "e">>, <<"b", "o", "x">>, <<"b", "r", "e", "a", "k">>,
     <<"c", "o", "n", "s", "t">>, <<"c", "o", "n", "t", "i", "n", "u", "e">>, <<"c", "r", "a", "t", "e">>, <<"d", "o">>, <<"d", "y", "n">>, <<"e", "l", "s", "e">>, <<"e", "n", "u", "m">>,
     <<"e", "x", "t", "e", "r", "n">>, <<"f", "a", "l", "s", "e">>, <<"f", "i", "n", "a", "l">>, <<"f", "n">>, <<"f", "o", "r">>, <<"i", "f">>, <<"i", "m", "p", "l">>, <<"i", "n">>,
     <<"l", "e", "t">>, <<"l", "o", "o", "p">>, <<"m", "a", "c", "r", "o">>, <<"m", "a", "t", "c", "h">>, <<"m", "o", "d">>, <<"m", "o", "v", "e">>, <<"m", "u", "t">>,
     <<"o", "v", "e", "r", "r", "i", "d", "e">>, <<"p", "r", "i", "v">>, <<"p", "u", "b">>, <<"r", "e", "f">>, <<"r", "e", "t", "u", "r", "n">>, <<"s", "e", "l", "f">>, <<"S", "e", "l", "f">>,
     <<"s", "t", "a", "t", "i", "c">>, <<"s", "t", "r", "u", "c", "t">>, <<"s", "u", "p", "e", "r">>, <<"t", "r", "a", "i", "t">>, <<"t", "r", "u", "e">>, <<"t", "r", "y">>, <<"t", "y", "p", "e">>,
     <<"t", "y", "p", "e", "o", "f">>, <<"u", "n", "i", "o", "n">>, <<"u", "n", "s", "a", "f", "e">>, <<"u", "n", "s", "i", "z", "e", "d">>, <<"u", "s", "e">>, <<"v", "i", "r", "t", "u", "a", "l">>,
     <<"w", "h", "e", "r", "e">>, <<"w", "h", "i", "l", "e">>, <<"y", "i", "e", "l", "d">>}

is_rust_keyword(name) == name \in RUST_KEYWORDS

\* ---------------------------------------------------------------- diagnostics in rules

\* Result::unwrap on an Err: the rule does not return, it panics.
Panic(cause) == [ok |-> FALSE, error |-> [variant |-> "panic", cause |-> cause]]

Panicked(result) == ~result.ok /\ result.error.variant = "panic"

\* The chain every rule writes: builder().rule(..).unwrap().object(..).unwrap()
\* .message(..).unwrap().resolution(..).unwrap().try_into().unwrap(). The result
\* is Ok of the diagnostic, or the builder error the chain unwraps.
Diagnostic(flavour, rule, object, message, resolution) ==
    LET named == builder_rule(DefaultBuilder(flavour), rule)
        aimed == IF named.ok THEN builder_object(named.value, object) ELSE named
        told == IF aimed.ok THEN builder_message(aimed.value, message) ELSE aimed
        solved == IF told.ok THEN builder_resolution(told.value, resolution) ELSE told
    IN IF solved.ok THEN try_from(solved.value) ELSE solved

RuleErrorInfo(rule, object, message, resolution) ==
    Diagnostic("Rule", <<rule>>, object, message, resolution)

\* Err(Error::Table(Box::new(table.clone()), error.into())) and its like, after
\* the final unwrap of the chain.
Violation(kind, entity, diagnostic) ==
    IF ~diagnostic.ok THEN Panic(diagnostic.error)
    ELSE IF kind = "Table" THEN Err(TableError(entity, diagnostic.value))
    ELSE IF kind = "Column" THEN Err(ColumnError(entity, diagnostic.value))
    ELSE Err(ForeignKeyError(entity, diagnostic.value))

\* ---------------------------------------------------------------- table rules

\* Vec::sort_unstable_by_key(|c| c.expression(database)), by insertion.
RECURSIVE insert_by_expression(_, _)
insert_by_expression(c, sorted) ==
    IF sorted = <<>> THEN <<c>>
    ELSE IF str_le(c.expression, sorted[1].expression) THEN <<c>> \o sorted
    ELSE <<sorted[1]>> \o insert_by_expression(c, Tail(sorted))

\* Mutant: the constraints are scanned in declaration order.
unsorted(constraints) == constraints

RECURSIVE sort_unstable_by_key(_)
sort_unstable_by_key(constraints) ==
    IF constraints = <<>> THEN <<>>
    ELSE insert_by_expression(constraints[1], sort_unstable_by_key(Tail(constraints)))

\* for window in constraints.windows(2): the first window of two equal
\* expressions, 0 when there is none.
first_equal_window(constraints) ==
    LET equal == {i \in 1..(Len(constraints) - 1) :
                     constraints[i].expression = constraints[i + 1].expression}
    IN IF equal = {} THEN 0 ELSE CHOOSE i \in equal : \A j \in equal : i <= j

\* Iterator::position over a sequence of test results: the first place that
\* holds TRUE, 0 when there is none.
position(tests) ==
    LET found == {i \in DOMAIN tests : tests[i]}
    IN IF found = {} THEN 0 ELSE CHOOSE i \in found : \A j \in found : i <= j

\* TableLike::is_extension: the table extends at least one table.
is_extension(table) == table.extended_tables # <<>>

LowercaseTableName(table) ==
    IF \A i \in DOMAIN table.table_name :
           ~is_alphabetic(table.table_name[i]) \/ is_lowercase(table.table_name[i])
    THEN Ok
    ELSE Violation("Table", table,
            RuleErrorInfo("LowercaseTableName",
                table.table_name,
                <<"Table name '">> \o table.table_name \o <<"' is not lowercase">>,
                <<"Rename the table to be all lowercase">>))

NoForbiddenColumnInExtension(self, table) ==
    LET forbidden_name_lower == to_lowercase(self.forbidden_name)
        forbidden == [i \in DOMAIN table.columns |->
                         to_lowercase(table.columns[i]) = forbidden_name_lower]
    IN IF ~is_extension(table) THEN Ok
       ELSE IF position(forbidden) = 0 THEN Ok
       ELSE Violation("Table", table,
            RuleErrorInfo("NoForbiddenColumnInExtension",
                table.table_name,
                <<"Table '">> \o table.table_name \o <<"' extends ">>
                    \o (IF Len(table.extended_tables) = 1 THEN <<"table">> ELSE <<"tables">>)
                    \o <<" (">> \o join(table.extended_tables, <<", ">>)
                    \o <<") but has a forbidden column named '">> \o self.forbidden_name
                    \o <<"'">>,
                <<"Rename or remove the '">> \o self.forbidden_name
                    \o <<"' column from table '">> \o table.table_name
                    \o <<"' (extension tables should not define this column)">>))

NoNegationCheckRule(table) ==
    LET first == position([i \in DOMAIN table.check_constraints |->
                              table.check_constraints[i].is_negation])
    IN IF first = 0 THEN Ok
       ELSE Violation("Table", table,
            RuleErrorInfo("NoNegationCheckRule",
                table.table_name,
                <<"Table '">> \o table.table_name
                    \o <<"' has a negation check constraint: CHECK (">>
                    \o table.check_constraints[first].expression \o <<")">>,
                <<"Remove the negation check constraint.">>))

NoRustKeywordTableName(table) ==
    IF ~is_rust_keyword(table.table_name) THEN Ok
    ELSE Violation("Table", table,
            RuleErrorInfo("NoRustKeywordTableName",
                table.table_name,
                <<"Table name '">> \o table.table_name \o <<"' is a Rust keyword.">>,
                <<"Rename the table '">> \o table.table_name
                    \o <<"' to something that is not a Rust keyword.">>))

NoTautologicalCheckRule(table) ==
    LET first == position([i \in DOMAIN table.check_constraints |->
                              table.check_constraints[i].is_tautology])
    IN IF first = 0 THEN Ok
       ELSE Violation("Table", table,
            RuleErrorInfo("NoTautologicalCheckRule",
                table.table_name,
                <<"Table '">> \o table.table_name
                    \o <<"' has a tautological check constraint: CHECK (">>
                    \o table.check_constraints[first].expression \o <<")">>,
                <<"Remove the tautological check constraint 'CHECK (">>
                    \o table.check_constraints[first].expression
                    \o <<")' from table '">> \o table.table_name \o <<"'">>))

PoliciesRequireRowLevelSecurity(table) ==
    IF ~(table.has_policies /\ ~table.has_row_level_security) THEN Ok
    ELSE Violation("Table", table,
            RuleErrorInfo("PoliciesRequireRowLevelSecurity",
                table.table_name,
                <<"Table '">> \o table.table_name \o <<"' has policies but RLS is not enabled">>,
                <<"Enable Row Level Security on the table">>))

\* The issue of SnakeCaseTableName and SnakeCaseColumnName.
snake_case_issue(name, expected_name) ==
    IF contains(name, <<"_", "_">>) THEN "contains double underscores"
    ELSE IF \E i \in DOMAIN name : is_ascii_uppercase(name[i])
         THEN "contains uppercase letters"
    ELSE IF name # expected_name THEN "does not follow snake_case convention"
    ELSE "is not valid snake_case"

SnakeCaseTableName(table) ==
    LET table_name == table.table_name
        expected_name == to_snake_case(table_name)
    IN IF expected_name = table_name THEN Ok
       ELSE Violation("Table", table,
            RuleErrorInfo("SnakeCaseTableName",
                table_name,
                <<"Table '">> \o table_name \o <<"' violates snake_case naming convention: ">>
                    \o <<snake_case_issue(table_name, expected_name)>>,
                <<"Change '">> \o table_name \o <<"' to '">> \o expected_name
                    \o <<"' (use lowercase letters and single underscores only)">>))

UniqueCheckRule(table) ==
    LET constraints == sort_unstable_by_key(table.check_constraints)
    IN IF first_equal_window(constraints) = 0 THEN Ok
       ELSE Violation("Table", table,
            RuleErrorInfo("UniqueCheckConstraint",
                table.table_name,
                <<"Table '">> \o table.table_name \o <<"' has non-unique check constraints">>,
                <<"Ensure all check constraints in the table are unique">>))

\* Error::Table(error.into()): the variant is built from the diagnostic alone.
NoEntity == [absent |-> TRUE]

UniqueUniqueIndex(table) ==
    LET constraints == sort_unstable_by_key(table.unique_indices)
        window == first_equal_window(constraints)
    IN IF window = 0 THEN Ok
       ELSE Violation("Table", NoEntity,
            Diagnostic("Constraint", <<"UniqueUniqueIndex">>,
                table.table_name,
                <<"Table '">> \o table.table_name
                    \o <<"' has non-unique unique index on columns: ">>
                    \o constraints[window].expression,
                <<"Ensure all unique index in the table are unique">>))

\* ---------------------------------------------------------------- table constraints

\* The orders in which n declarations can be written.
Orders(n) == {p \in [1..n -> 1..n] : \A i, j \in 1..n : p[i] = p[j] => i = j}

\* The width of a digest. DefaultHasher::finish returns a u64.
HashBits == 3

\* DefaultHasher::new(): std leaves the algorithm of the default hasher
\* unspecified, so a build's hasher is one of a family of digest functions,
\* named here by its multiplier.
Hashers == {3, 7}

\* Hasher::finish after the bytes were written: a digest of HashBits bits that
\* depends on nothing but the hasher and the bytes.
RECURSIVE finish(_, _)
finish(hasher, bytes) ==
    IF bytes = <<>> THEN 0
    ELSE LET last_byte == bytes[Len(bytes)]
             code == IF last_byte \in Range(Collation) THEN Code(last_byte) ELSE 0
             state == finish(hasher, SubSeq(bytes, 1, Len(bytes) - 1))
         IN (state * hasher + (state \div 2) + code) % (2 ^ HashBits)

\* Mutant: the columns are put in order before they are hashed.
signature_canonical(hasher, fk) ==
    LET sorted(names) == CHOOSE s \in {[i \in DOMAIN names |-> names[p[i]]] :
                                            p \in Orders(Len(names))} :
                            \A i \in 1..(Len(s) - 1) : str_le(s[i], s[i + 1])
    IN finish(hasher,
              join(sorted(fk.host_columns) \o <<fk.referenced_table>>
                       \o sorted(fk.referenced_columns), <<"|">>))

\* The closure of the map: every host column, the referenced table and every
\* referenced column are hashed one after the other into one hasher, each
\* closed by a terminator.
signature(hasher, fk) ==
    finish(hasher,
           join(fk.host_columns \o <<fk.referenced_table>> \o fk.referenced_columns,
                <<"|">>))

\* Mutant: the pairs are scanned in declaration order.
unsorted_signatures(pairs) == {pairs}

\* signatures_with_fks.sort_unstable_by_key(|(sig, _)| *sig): the pairs in
\* ascending order of signature. An unstable sort leaves the order of pairs
\* with equal signatures open, so the result is one of the orders below.
sort_signatures(pairs) ==
    {[i \in 1..Len(pairs) |-> pairs[order[i]]] :
        order \in {p \in Orders(Len(pairs)) :
                      \A i, j \in 1..Len(pairs) :
                          i < j => pairs[p[i]].sig <= pairs[p[j]].sig}}

report_last_duplicate(table, signatures_with_fks) ==
    LET equal == {i \in 1..(Len(signatures_with_fks) - 1) :
                     signatures_with_fks[i].sig = signatures_with_fks[i + 1].sig}
        window == CHOOSE i \in equal : \A j \in equal : i >= j
        details(fk) ==
            <<"FOREIGN KEY (">> \o join(fk.host_columns, <<", ">>)
                \o <<") REFERENCES ">> \o fk.referenced_table
                \o <<" (">> \o join(fk.referenced_columns, <<", ">>) \o <<")">>
    IN IF equal = {} THEN Ok
       ELSE Violation("Table", NoEntity,
            Diagnostic("Constraint", <<"UniqueForeignKey">>,
                table.table_name,
                <<"Table '">> \o table.table_name
                    \o <<"' has ", "2", " duplicate foreign key definitions:", "\n", "  - ">>
                    \o details(signatures_with_fks[window].fk) \o <<"\n", "  - ">>
                    \o details(signatures_with_fks[window + 1].fk)
                    \o <<"\n", "Both foreign keys reference the same columns and target table">>,
                <<"Remove one of the duplicate foreign key constraints from table '">>
                    \o table.table_name \o <<"'. Keep only one: ">>
                    \o details(signatures_with_fks[window].fk)))

\* What validate_table does once the pairs are sorted.
report_first_duplicate(table, signatures_with_fks) ==
    LET window == position([i \in 1..(Len(signatures_with_fks) - 1) |->
                      signatures_with_fks[i].sig = signatures_with_fks[i + 1].sig])
        duplicate_fks ==
            IF window = 0 THEN <<>>
            ELSE <<signatures_with_fks[window].fk, signatures_with_fks[window + 1].fk>>
        table_name == table.table_name
        fk_details ==
            [i \in DOMAIN duplicate_fks |->
                <<"FOREIGN KEY (">> \o join(duplicate_fks[i].host_columns, <<", ">>)
                    \o <<") REFERENCES ">> \o duplicate_fks[i].referenced_table
                    \o <<" (">> \o join(duplicate_fks[i].referenced_columns, <<", ">>)
                    \o <<")">>]
    IN IF duplicate_fks = <<>> THEN Ok
       ELSE Violation("Table", NoEntity,
            IF duplicate_fks = <<>>
            THEN Diagnostic("Constraint", <<"UniqueForeignKey">>,
                    table_name,
                    <<"Table '">> \o table_name \o <<"' has duplicate foreign keys">>,
                    <<"Ensure all foreign keys in the table are unique">>)
            ELSE Diagnostic("Constraint", <<"UniqueForeignKey">>,
                    table_name,
                    <<"Table '">> \o table_name \o <<"' has ">>
                        \o <<ToString(Len(duplicate_fks))>>
                        \o <<" duplicate foreign key definitions:", "\n", "  - ">>
                        \o join(fk_details, <<"\n", "  - ">>)
                        \o <<"\n", "Both foreign keys reference the same columns and target table">>,
                    <<"Remove one of the duplicate foreign key constraints from table '">>
                        \o table_name \o <<"'. Keep only one: ">> \o fk_details[1]))

\* validate_table in a build with the given hasher: the results it can return.
UniqueForeignKey(hasher, table) ==
    LET constraints == table.foreign_keys
    IN {report_first_duplicate(table, signatures_with_fks) :
           signatures_with_fks \in
               sort_signatures([i \in DOMAIN constraints |->
                   [sig |-> signature(hasher, constraints[i]), fk |-> constraints[i]]])}

\* ---------------------------------------------------------------- column rules

\* ColumnLike::is_primary_key: the column is one of its table's key columns.
is_primary_key(column) == column.column_name \in Range(column.table.primary_key_columns)

\* format!("{table_name}.{column_name}")
qualified_name(column) == column.table.table_name \o <<".">> \o column.column_name

LowercaseColumnName(column) ==
    LET table_name == column.table.table_name
        column_name == column.column_name
    IN IF \A i \in DOMAIN column_name :
              ~is_alphabetic(column_name[i]) \/ is_lowercase(column_name[i])
       THEN Ok
       ELSE Violation("Column", column,
            RuleErrorInfo("LowercaseColumnName",
                qualified_name(column),
                <<"Column '">> \o column_name \o <<"' in table '">> \o table_name
                    \o <<"' is not lowercase">>,
                <<"Rename column '">> \o column_name \o <<"' in table '">> \o table_name
                    \o <<"' to be all lowercase">>))

NoRustKeywordColumnName(column) ==
    LET table_name == column.table.table_name
        column_name == column.column_name
    IN IF ~is_rust_keyword(column_name) THEN Ok
       ELSE Violation("Column", column,
            RuleErrorInfo("NoRustKeywordColumnName",
                qualified_name(column),
                <<"Column name '">> \o column_name \o <<"' in table '">> \o table_name
                    \o <<"' is a Rust keyword.">>,
                <<"Rename the column '">> \o column_name
                    \o <<"' to something that is not a Rust keyword.">>))

NoSurrogatePrimaryKeyInExtension(column) ==
    LET surrogate_reason ==
            IF column.is_generated /\ column.has_default
            THEN "is generated and defines a DEFAULT value"
            ELSE IF column.is_generated THEN "is generated (e.g. SERIAL/AUTOINCREMENT)"
            ELSE "defines a DEFAULT value"
    IN IF ~is_primary_key(column) THEN Ok
       ELSE IF ~is_extension(column.table) THEN Ok
       ELSE IF ~column.is_generated /\ ~column.has_default THEN Ok
       ELSE Violation("Column", column,
            RuleErrorInfo("NoSurrogatePrimaryKeyInExtension",
                qualified_name(column),
                <<"Primary-key column '">> \o qualified_name(column)
                    \o <<"' belongs to an extension table and ">> \o <<surrogate_reason>>,
                <<"Use a non-surrogate primary key for '">> \o qualified_name(column)
                    \o <<"' by removing SERIAL/AUTOINCREMENT/DEFAULT and reusing the inherited key value">>))

NonCompositePrimaryKeyNamedId(column) ==
    LET table_name == column.table.table_name
        column_name == column.column_name
        pk_columns == column.table.primary_key_columns
    IN IF ~is_primary_key(column) THEN Ok
       ELSE IF Len(pk_columns) > 1 THEN Ok
       ELSE IF column_name = <<"i", "d">> THEN Ok
       ELSE Violation("Column", column,
            RuleErrorInfo("NonCompositePrimaryKeyNamedId",
                qualified_name(column),
                <<"Column '">> \o column_name \o <<"' in table '">> \o table_name
                    \o <<"' is a non-composite primary key but is not named 'id'">>,
                <<"Rename the primary key column '">> \o column_name
                    \o <<"' to 'id' in table '">> \o table_name \o <<"'">>))

\* The names PastTimeColumnRule leaves alone.
future_or_ambiguous ==
    {<<"e", "x", "p", "i", "r", "e", "s", "_", "a", "t">>, <<"d", "u", "e", "_", "a", "t">>, <<"s", "t", "a", "r", "t", "s", "_", "a", "t">>, <<"e", "n", "d", "s", "_", "a", "t">>, <<"s", "c", "h", "e", "d", "u", "l", "e", "d", "_", "a", "t">>}

PastTimeColumnRule_exempt_suffix(column) ==
    IF \E name \in future_or_ambiguous : ends_with(column.column_name, name) THEN Ok
    ELSE IF \E i \in DOMAIN column.check_constraints :
                contains(to_lowercase(column.check_constraints[i].expression), <<"<">>)
    THEN Ok
    ELSE Violation("Column", column,
            RuleErrorInfo("PastTimeColumnRule", qualified_name(column),
                <<"Time-related column">>, <<"Add a check constraint">>))

PastTimeColumnRule(column) ==
    LET column_name == column.column_name
        has_past_check ==
            \E i \in DOMAIN column.check_constraints :
                LET expr == to_lowercase(column.check_constraints[i].expression)
                    mentions_now == \/ contains(expr, <<"n", "o", "w", "(", ")">>)
                                    \/ contains(expr, <<"c", "u", "r", "r", "e", "n", "t", "_", "t", "i", "m", "e", "s", "t", "a", "m", "p">>)
                    has_lt == contains(expr, <<"<">>)
                IN mentions_now /\ has_lt
    IN IF ~ends_with(column_name, <<"_", "a", "t">>) THEN Ok
       ELSE IF column_name \in future_or_ambiguous THEN Ok
       ELSE IF has_past_check THEN Ok
       ELSE Violation("Column", column,
            RuleErrorInfo("PastTimeColumnRule",
                qualified_name(column),
                <<"Time-related column '">> \o qualified_name(column)
                    \o <<"' must have a check constraint ensuring it is in the past.">>,
                <<"Add a check constraint like CHECK (">> \o column_name
                    \o <<" <= NOW()).">>))

SingularColumnName(column) ==
    LET table_name == column.table.table_name
        column_name == column.column_name
        cut == rfind(column_name, "_")
        last_segment == SubSeq(column_name, cut + 1, Len(column_name))
        singularized == singularize(last_segment)
        expected_name ==
            IF cut # 0 THEN SubSeq(column_name, 1, cut - 1) \o <<"_">> \o singularized
            ELSE singularized
    IN IF singularized = last_segment THEN Ok
       ELSE Violation("Column", column,
            RuleErrorInfo("SingularColumnName",
                qualified_name(column),
                <<"Column '">> \o column_name \o <<"' in table '">> \o table_name
                    \o <<"' violates singular naming convention: the last segment '">>
                    \o last_segment \o <<"' is plural, not singular">>,
                <<"Change '">> \o column_name \o <<"' to '">> \o expected_name
                    \o <<"' in table '">> \o table_name
                    \o <<"' (singularize the last segment from '">> \o last_segment
                    \o <<"' to '">> \o singularized \o <<"')">>))

SnakeCaseColumnName(column) ==
    LET table_name == column.table.table_name
        column_name == column.column_name
        snake_cased == to_snake_case(column_name)
    IN IF snake_cased = column_name THEN Ok
       ELSE Violation("Column", column,
            RuleErrorInfo("SnakeCaseColumnName",
                qualified_name(column),
                <<"Column '">> \o column_name \o <<"' in table '">> \o table_name
                    \o <<"' violates snake_case naming convention: ">>
                    \o <<snake_case_issue(column_name, snake_cased)>>,
                <<"Change '">> \o column_name \o <<"' to '">> \o snake_cased
                    \o <<"' in table '">> \o table_name
                    \o <<"' (use lowercase letters and single underscores only)">>))

ensure_not_empty_constraint(column) ==
    IF \E i \in DOMAIN column.check_constraints :
           column.check_constraints[i].is_not_empty_text_constraint
    THEN Ok
    ELSE Violation("Column", column,
            RuleErrorInfo("TextualColumnRule",
                qualified_name(column),
                <<"Textual column '">> \o qualified_name(column)
                    \o <<"' must have a check constraint verifying it is not empty.">>,
                <<"Add a check constraint verifying the column is not empty (e.g. CHECK (col <> '')).">>))

\* The loop of ensure_length_constraint_exists: the smallest upper bound seen.
RECURSIVE smallest_limit(_, _)
smallest_limit(constraints, max_length) ==
    IF constraints = <<>> THEN max_length
    ELSE LET limit == constraints[1].is_upper_bounded_text_constraint
         IN smallest_limit(Tail(constraints),
                IF limit = None THEN max_length
                ELSE IF max_length = None THEN limit
                ELSE IF limit[1] < max_length[1] THEN limit
                ELSE max_length)

ensure_length_constraint_exists(column) ==
    LET max_length == smallest_limit(column.check_constraints, None)
    IN IF max_length # None THEN OkOf(max_length[1])
       ELSE Violation("Column", column,
            RuleErrorInfo("TextualColumnRule",
                qualified_name(column),
                <<"Textual column '">> \o qualified_name(column)
                    \o <<"' must have an upper bound length check constraint.">>,
                <<"Add a length check constraint (e.g. CHECK (LENGTH(col) <= 255)).">>))

ensure_length_limits_exclusive(column, limit) ==
    LET in_index ==
            \/ \E i \in DOMAIN column.table.indices :
                   column.column_name \in Range(column.table.indices[i])
            \/ is_primary_key(column)
    IN IF (in_index /\ limit >= 255) \/ (~in_index /\ limit >= 8192)
       THEN Violation("Column", column,
            RuleErrorInfo("TextualColumnRule", qualified_name(column),
                <<"Textual column '">> \o qualified_name(column) \o <<"' has length limit ">>
                    \o <<ToString(limit)>>,
                <<"Reduce the length limit.">>))
       ELSE Ok

ensure_length_limits(column, limit) ==
    LET in_unique_index ==
            \E i \in DOMAIN column.table.indices :
                column.column_name \in Range(column.table.indices[i])
        in_index == in_unique_index \/ is_primary_key(column)
    IN IF in_index /\ limit > 255
       THEN Violation("Column", column,
            RuleErrorInfo("TextualColumnRule",
                qualified_name(column),
                <<"Textual column '">> \o qualified_name(column)
                    \o <<"' appears in an index but has length limit ">> \o <<ToString(limit)>>
                    \o <<" which is greater than 255.">>,
                <<"Reduce the length limit to 255 or less, or remove the column from the index.">>))
       ELSE IF ~in_index /\ limit > 8192
       THEN Violation("Column", column,
            RuleErrorInfo("TextualColumnRule",
                qualified_name(column),
                <<"Textual column '">> \o qualified_name(column)
                    \o <<"' has length limit ">> \o <<ToString(limit)>>
                    \o <<" which is greater than 8192 (8K). This column likely stores a document.">>,
                <<"If you intend to store large text documents, this might be better suited for a document store or Blob storage. Consider reducing the size if not necessary.">>))
       ELSE Ok

TextualColumnRule(column) ==
    IF ~column.is_textual THEN Ok
    ELSE LET not_empty == ensure_not_empty_constraint(column)
             limit == ensure_length_constraint_exists(column)
         IN IF ~not_empty.ok THEN not_empty
            ELSE IF ~limit.ok THEN limit
            ELSE ensure_length_limits(column, limit.value)

\* ---------------------------------------------------------------- foreign-key rules

\* ColumnLike::is_compatible_with: two columns can hold the same value when
\* they are not both generated, have the same normalized data type and belong
\* to the same table hierarchy.
is_compatible_with(host_column, referenced_column) ==
    /\ ~(host_column.is_generated /\ referenced_column.is_generated)
    /\ host_column.normalized_data_type = referenced_column.normalized_data_type
    /\ host_column.hierarchy = referenced_column.hierarchy

\* One side of the hierarchy message: the tables the column references, or
\* its own table when it is the primary key, or "none".
hierarchy_refs(table_name, column) ==
    IF column.referenced_tables # <<>> THEN join(column.referenced_tables, <<", ">>)
    ELSE IF column.is_primary_key THEN table_name \o <<" (primary key)">>
    ELSE <<"none">>

\* The (message, resolution) pair of CompatibleForeignKey.
get_incompatibility_details(host_table, referenced_table, host_column, referenced_column) ==
    LET host == host_table \o <<".">> \o host_column.column_name
        other == referenced_table \o <<".">> \o referenced_column.column_name
    IN IF host_column.is_generated /\ referenced_column.is_generated
       THEN << <<"Foreign key column ">> \o host \o <<" and referenced column ">> \o other
                 \o <<" are both generative (auto-increment/serial), which means they should never have the same value">>,
               <<"Remove the generative property from ">> \o host
                 \o <<" (change from SERIAL/AUTO_INCREMENT to INT/BIGINT) or redesign the foreign key relationship">> >>
       ELSE IF host_column.normalized_data_type # referenced_column.normalized_data_type
       THEN << <<"Foreign key column ">> \o host \o <<" has data type '">>
                 \o <<host_column.normalized_data_type>>
                 \o <<"' which is incompatible with referenced column ">> \o other
                 \o <<" data type '">> \o <<referenced_column.normalized_data_type>> \o <<"'">>,
               <<"Change the data type of ">> \o host \o <<" to '">>
                 \o <<referenced_column.normalized_data_type>>
                 \o <<"' to match the referenced column">> >>
       ELSE << <<"Foreign key column ">> \o host
                 \o <<" is not compatible with referenced column ">> \o other
                 \o <<": they reference incompatible table hierarchies. ">> \o host
                 \o <<" references [">> \o hierarchy_refs(host_table, host_column)
                 \o <<"], while ">> \o other \o <<" references [">>
                 \o hierarchy_refs(referenced_table, referenced_column) \o <<"]">>,
               <<"Ensure that ">> \o host \o <<" and ">> \o other
                 \o <<" are part of the same table extension hierarchy, or reconsider the foreign key relationship">> >>

\* foreign_key.foreign_key_name().unwrap_or("Unnamed foreign key")
name_or_unnamed(foreign_key) ==
    IF foreign_key.foreign_key_name = None THEN <<"Unnamed foreign key">>
    ELSE foreign_key.foreign_key_name[1]

\* host_columns.zip(referenced_columns): as many pairs as the shorter side has.
zipped(foreign_key) ==
    1..(IF Len(foreign_key.host_columns) < Len(foreign_key.referenced_columns)
        THEN Len(foreign_key.host_columns) ELSE Len(foreign_key.referenced_columns))

CompatibleForeignKey_last_pair(foreign_key) ==
    LET clashing == {i \in zipped(foreign_key) :
                        ~is_compatible_with(foreign_key.host_columns[i],
                                            foreign_key.referenced_columns[i])}
        final == CHOOSE i \in clashing : \A j \in clashing : i >= j
        details == get_incompatibility_details(
                       foreign_key.host_table, foreign_key.referenced_table,
                       foreign_key.host_columns[final], foreign_key.referenced_columns[final])
    IN IF clashing = {} THEN Ok
       ELSE Violation("ForeignKey", foreign_key,
            RuleErrorInfo("CompatibleForeignKey",
                name_or_unnamed(foreign_key), details[1], details[2]))

CompatibleForeignKey(foreign_key) ==
    LET clashing == {i \in zipped(foreign_key) :
                        ~is_compatible_with(foreign_key.host_columns[i],
                                            foreign_key.referenced_columns[i])}
        first == CHOOSE i \in clashing : \A j \in clashing : i <= j
        details == get_incompatibility_details(
                       foreign_key.host_table, foreign_key.referenced_table,
                       foreign_key.host_columns[first], foreign_key.referenced_columns[first])
    IN IF clashing = {} THEN Ok
       ELSE Violation("ForeignKey", foreign_key,
            RuleErrorInfo("CompatibleForeignKey",
                name_or_unnamed(foreign_key), details[1], details[2]))

NoRustKeywordForeignKeyName(foreign_key) ==
    IF ~(/\ foreign_key.foreign_key_name # None
         /\ is_rust_keyword(foreign_key.foreign_key_name[1]))
    THEN Ok
    ELSE LET name == foreign_key.foreign_key_name[1]
         IN Violation("ForeignKey", foreign_key,
            RuleErrorInfo("NoRustKeywordForeignKeyName",
                name,
                <<"Foreign key name '">> \o name \o <<"' is a Rust keyword.">>,
                <<"Rename the foreign key '">> \o name
                    \o <<"' to something that is not a Rust keyword.">>))

ReferencesUniqueIndex(foreign_key) ==
    LET referenced_columns == foreign_key.referenced_columns
        has_matching_unique_index ==
            \E i \in DOMAIN foreign_key.referenced_unique_indices :
                foreign_key.referenced_unique_indices[i].columns = referenced_columns
        referenced_column_names ==
            [i \in DOMAIN referenced_columns |-> referenced_columns[i].column_name]
    IN IF has_matching_unique_index THEN Ok
       ELSE Violation("ForeignKey", foreign_key,
            RuleErrorInfo("ReferencesUniqueIndex",
                name_or_unnamed(foreign_key),
                <<"Foreign key from table '">> \o foreign_key.host_table
                    \o <<"' references columns (">>
                    \o join(referenced_column_names, <<", ">>) \o <<") in table '">>
                    \o foreign_key.referenced_table
                    \o <<"' which are not covered by a unique index">>,
                <<"Add a unique constraint or primary key on columns (">>
                    \o join(referenced_column_names, <<", ">>) \o <<") in table '">>
                    \o foreign_key.referenced_table
                    \o <<"', or remove the foreign key from table '">>
                    \o foreign_key.host_table \o <<"'">>))

\* ---------------------------------------------------------------- sample entities

\* Largest number of check constraints (or unique indices) of one entity.
MaxChecks == 2

\* Largest number of columns on one side of a foreign key.
MaxKeyColumns == 2

\* The check constraints and the unique indices of one table: enough for two
\* equal expressions with another between them, and for two groups of equal
\* expressions.
MaxTableChecks == 3

MaxIndices == 4

\* The foreign keys of one table: enough for two equal keys with another
\* between them.
MaxForeignKeys == 3

CheckConstraint(expression, tautology, negation, not_empty, upper_bound) ==
    [expression |-> expression,
     is_tautology |-> tautology,
     is_negation |-> negation,
     is_not_empty_text_constraint |-> not_empty,
     is_upper_bounded_text_constraint |-> upper_bound]

TableChecks ==
    {CheckConstraint(<<"a", ">", "0">>, FALSE, FALSE, FALSE, None),
     CheckConstraint(<<"0", "=", "0">>, TRUE, FALSE, FALSE, None),
     CheckConstraint(<<"0", "=", "1">>, FALSE, TRUE, FALSE, None)}

ColumnChecks ==
    {CheckConstraint(<<"a", "_", "a", "t", "<", "=", "N", "O", "W", "(", ")">>, FALSE, FALSE, FALSE, None),
     CheckConstraint(<<"a", "_", "a", "t", ">", "N", "O", "W", "(", ")">>, FALSE, FALSE, FALSE, None),
     CheckConstraint(<<"a", "_", "a", "t", "<", "C", "U", "R", "R", "E", "N", "T", "_", "T", "I", "M", "E", "S", "T", "A", "M", "P">>, FALSE, FALSE, FALSE, None),
     CheckConstraint(<<"a", "<", ">", "'", "'">>, FALSE, FALSE, TRUE, None),
     CheckConstraint(<<"l", "e", "n", "g", "t", "h", "(", "a", ")", "<", "=", "2", "5", "5">>, FALSE, FALSE, FALSE, Some(255)),
     CheckConstraint(<<"l", "e", "n", "g", "t", "h", "(", "a", ")", "<", "=", "2", "5", "6">>, FALSE, FALSE, FALSE, Some(256)),
     CheckConstraint(<<"l", "e", "n", "g", "t", "h", "(", "a", ")", "<", "=", "8", "1", "9", "2">>, FALSE, FALSE, FALSE, Some(8192)),
     CheckConstraint(<<"l", "e", "n", "g", "t", "h", "(", "a", ")", "<", "=", "8", "1", "9", "3">>, FALSE, FALSE, FALSE, Some(8193))}

UniqueIndex(expression, index_columns) ==
    [expression |-> expression, columns |-> index_columns]

TableNames == {<<"a">>, <<"A">>, <<"a", "B">>, <<"a", "_", "_", "a">>, <<"f", "n">>, <<" ">>}

ColumnNames ==
    {<<"i", "d">>, <<"a">>, <<"A">>, <<"i", "d", "s">>, <<"a", "_", "i", "d", "s">>, <<"f", "n">>, <<"a", "_", "a", "t">>, <<"d", "u", "e", "_", "a", "t">>, <<" ">>}

BaseTable ==
    [table_name |-> <<"a">>,
     extended_tables |-> <<>>,
     columns |-> << <<"i", "d">> >>,
     check_constraints |-> <<>>,
     has_policies |-> FALSE,
     has_row_level_security |-> FALSE,
     unique_indices |-> <<>>]

\* The tables the table rules are applied to: every name with every list of
\* check constraints, of parents and columns, of policies and of unique indices.
SampleTables ==
    UNION {
        {[BaseTable EXCEPT !.table_name = n, !.check_constraints = cs] :
            cs \in SeqsUpTo(TableChecks, MaxTableChecks)}
        \cup {[BaseTable EXCEPT !.table_name = n, !.extended_tables = e, !.columns = c] :
            e \in {<<>>, << <<"b">> >>, << <<"b">>, <<"c">> >>},
            c \in {<< <<"i", "d">> >>,
                   << <<"i", "d">>, <<"e", "x", "t", "e", "n", "s", "i", "o", "n">> >>,
                   << <<"E", "x", "t", "e", "n", "s", "i", "o", "n">> >>}}
        \cup {[BaseTable EXCEPT !.table_name = n, !.has_policies = p,
                                !.has_row_level_security = r] :
            p \in BOOLEAN, r \in BOOLEAN}
        \cup {[BaseTable EXCEPT !.table_name = n, !.unique_indices = u] :
            u \in SeqsUpTo({UniqueIndex(<<"a">>, <<>>),
                             UniqueIndex(<<"a", ",", "b">>, <<>>),
                             UniqueIndex(<<"b">>, <<>>)},
                            MaxIndices)}
        : n \in TableNames}

\* The columns the column rules are applied to: every name with every key
\* situation, and the time and text names with every list of check constraints.
SampleColumns ==
    UNION {
        {[column_name |-> n,
          table |-> [table_name |-> t, extended_tables |-> e,
                     primary_key_columns |-> pk, indices |-> <<>>],
          is_generated |-> g, has_default |-> d,
          is_textual |-> FALSE, check_constraints |-> <<>>] :
            t \in {<<"a">>, <<" ">>}, e \in {<<>>, << <<"b">> >>},
            pk \in {<<>>, <<n>>, <<n, <<"b">> >>}, g \in BOOLEAN, d \in BOOLEAN}
        : n \in ColumnNames}
    \cup
    UNION {
        {[column_name |-> n,
          table |-> [table_name |-> t, extended_tables |-> <<>>,
                     primary_key_columns |-> pk, indices |-> idx],
          is_generated |-> FALSE, has_default |-> FALSE,
          is_textual |-> x, check_constraints |-> cs] :
            t \in {<<"a">>, <<" ">>}, pk \in {<<>>, <<n>>}, idx \in {<<>>, << <<n>> >>},
            x \in BOOLEAN, cs \in SeqsUpTo(ColumnChecks, MaxChecks)}
        : n \in {<<"i", "d">>, <<"a", "_", "a", "t">>, <<"d", "u", "e", "_", "a", "t">>,
                 <<"x", "_", "d", "u", "e", "_", "a", "t">>, <<" ">>}}

\* The columns a foreign key joins.
KeyColumns ==
    {[column_name |-> <<"i", "d">>, is_generated |-> TRUE, normalized_data_type |-> "INT",
      hierarchy |-> "a", referenced_tables |-> <<>>, is_primary_key |-> TRUE],
     [column_name |-> <<"a", "_", "i", "d">>, is_generated |-> FALSE, normalized_data_type |-> "INT",
      hierarchy |-> "a", referenced_tables |-> << <<"a">> >>, is_primary_key |-> FALSE],
     [column_name |-> <<"b", "_", "i", "d">>, is_generated |-> FALSE, normalized_data_type |-> "INT",
      hierarchy |-> "b", referenced_tables |-> <<>>, is_primary_key |-> FALSE],
     [column_name |-> <<"a">>, is_generated |-> FALSE, normalized_data_type |-> "TEXT",
      hierarchy |-> "a", referenced_tables |-> <<>>, is_primary_key |-> FALSE]}

\* The foreign keys the foreign-key rules are applied to.
SampleForeignKeys ==
    UNION {
        {[foreign_key_name |-> name,
          host_table |-> <<"b">>,
          referenced_table |-> <<"a">>,
          host_columns |-> host,
          referenced_columns |-> referenced,
          referenced_unique_indices |-> indices] :
            name \in {None, Some(<<"f", "k">>), Some(<<"f", "n">>), Some(<<" ">>)},
            host \in SeqsUpTo(KeyColumns, MaxKeyColumns) \ {<<>>},
            indices \in {<<>>,
                         <<UniqueIndex(<<"a">>, referenced)>>,
                         <<UniqueIndex(<<"a">>, <<referenced[1]>>)>>,
                         <<UniqueIndex(<<"a">>,
                             [i \in DOMAIN referenced |->
                                 referenced[Len(referenced) + 1 - i]])>>,
                         <<UniqueIndex(<<"a">>, <<referenced[1]>>),
                           UniqueIndex(<<"b">>, referenced)>>}}
        : referenced \in SeqsUpTo(KeyColumns, MaxKeyColumns) \ {<<>>}}

\* ---------------------------------------------------------------- applying the rules

TableRules ==
    {"LowercaseTableName", "NoForbiddenColumnInExtension", "NoNegationCheckRule",
     "NoRustKeywordTableName", "NoTautologicalCheckRule",
     "PoliciesRequireRowLevelSecurity", "SnakeCaseTableName", "UniqueCheckRule",
     "UniqueUniqueIndex"}

ColumnRules ==
    {"LowercaseColumnName", "NoRustKeywordColumnName", "NoSurrogatePrimaryKeyInExtension",
     "NonCompositePrimaryKeyNamedId", "PastTimeColumnRule", "SingularColumnName",
     "SnakeCaseColumnName", "TextualColumnRule"}

ForeignKeyRules ==
    {"CompatibleForeignKey", "NoRustKeywordForeignKeyName", "ReferencesUniqueIndex"}

\* NoForbiddenColumnInExtension::default()
DefaultNoForbiddenColumnInExtension == [forbidden_name |-> <<"e", "x", "t", "e", "n", "s", "i", "o", "n">>]

\* <Rule as TableRule>::validate_table for the rule struct of that name.
shipped_validate_table(rule, table) ==
    CASE rule = "LowercaseTableName" -> LowercaseTableName(table)
      [] rule = "NoForbiddenColumnInExtension" ->
            NoForbiddenColumnInExtension(DefaultNoForbiddenColumnInExtension, table)
      [] rule = "NoNegationCheckRule" -> NoNegationCheckRule(table)
      [] rule = "NoRustKeywordTableName" -> NoRustKeywordTableName(table)
      [] rule = "NoTautologicalCheckRule" -> NoTautologicalCheckRule(table)
      [] rule = "PoliciesRequireRowLevelSecurity" -> PoliciesRequireRowLevelSecurity(table)
      [] rule = "SnakeCaseTableName" -> SnakeCaseTableName(table)
      [] rule = "UniqueCheckRule" -> UniqueCheckRule(table)
      [] rule = "UniqueUniqueIndex" -> UniqueUniqueIndex(table)

shipped_validate_column(rule, column) ==
    CASE rule = "LowercaseColumnName" -> LowercaseColumnName(column)
      [] rule = "NoRustKeywordColumnName" -> NoRustKeywordColumnName(column)
      [] rule = "NoSurrogatePrimaryKeyInExtension" -> NoSurrogatePrimaryKeyInExtension(column)
      [] rule = "NonCompositePrimaryKeyNamedId" -> NonCompositePrimaryKeyNamedId(column)
      [] rule = "PastTimeColumnRule" -> PastTimeColumnRule(column)
      [] rule = "SingularColumnName" -> SingularColumnName(column)
      [] rule = "SnakeCaseColumnName" -> SnakeCaseColumnName(column)
      [] rule = "TextualColumnRule" -> TextualColumnRule(column)

shipped_validate_foreign_key(rule, foreign_key) ==
    CASE rule = "CompatibleForeignKey" -> CompatibleForeignKey(foreign_key)
      [] rule = "NoRustKeywordForeignKeyName" -> NoRustKeywordForeignKeyName(foreign_key)
      [] rule = "ReferencesUniqueIndex" -> ReferencesUniqueIndex(foreign_key)

Report(rule, kind, entity, result) ==
    /\ report' = [rule |-> rule, kind |-> kind, entity |-> entity, result |-> result]
    /\ UNCHANGED <<engine_vars, builder_vars>>

\* The foreign keys UniqueForeignKey looks at: one or two host columns, in
\* either order, that reference as many columns of one of two tables.
SampleKeys ==
    {[host_columns |-> c[1], referenced_table |-> t, referenced_columns |-> c[2]] :
        t \in {<<"t">>, <<"u">>},
        c \in {<< << <<"a">> >>, << <<"x">> >> >>}
              \cup ({<< <<"a">>, <<"b">> >>, << <<"b">>, <<"a">> >>}
                        \X {<< <<"x">>, <<"y">> >>, << <<"y">>, <<"x">> >>})}

\* The tables UniqueForeignKey is applied to: every list of up to
\* MaxForeignKeys keys, and the lists in which two keys are each declared twice.
KeyedTables ==
    {[table_name |-> n, foreign_keys |-> ks] :
        n \in {<<"a">>, <<" ">>}, ks \in SeqsUpTo(SampleKeys, MaxForeignKeys)}
    \cup {[table_name |-> <<"a">>, foreign_keys |-> <<k1, k2, k2, k1>>] :
              k1, k2 \in SampleKeys}

\* A rule takes &self and the database by shared reference and keeps no state:
\* what it returns depends on the entity alone, so a behaviour applies one rule
\* to one entity.
ApplyTableRule ==
    /\ report = NoReport
    /\ \E rule \in TableRules, table \in SampleTables :
           Report(rule, "Table", table, shipped_validate_table(rule, table))

ApplyColumnRule ==
    /\ report = NoReport
    /\ \E rule \in ColumnRules, column \in SampleColumns :
           Report(rule, "Column", column, shipped_validate_column(rule, column))

ApplyForeignKeyRule ==
    /\ report = NoReport
    /\ \E rule \in ForeignKeyRules, foreign_key \in SampleForeignKeys :
           Report(rule, "ForeignKey", foreign_key,
                  shipped_validate_foreign_key(rule, foreign_key))

\* UniqueForeignKey::default().validate_table(&database, &table) in a build
\* with one of the hashers.
ApplyUniqueForeignKey ==
    /\ report = NoReport
    /\ \E hasher \in Hashers, table \in KeyedTables :
         \E result \in UniqueForeignKey(hasher, table) :
           /\ report' = [rule |-> "UniqueForeignKey", kind |-> "Table", entity |-> table,
                         hasher |-> hasher, result |-> result]
           /\ UNCHANGED <<engine_vars, builder_vars>>

\* DefaultConstrainer::default(): the register calls in the order they are
\* written, each rule by the name of its struct.
DefaultConstrainer ==
    [tables |-> <<"HasPrimaryKey", "LowercaseTableName", "SnakeCaseTableName",
                  "PluralTableName", "NoRustKeywordTableName", "NoTautologicalCheckRule",
                  "NoNegationCheckRule", "NoForbiddenColumnInExtension",
                  "NonRedundantExtensionDag", "UniqueCheckRule",
                  "UniqueColumnNamesInExtensionGraph", "UniqueForeignKey",
                  "UniqueUniqueIndex">>,
     columns |-> <<"LowercaseColumnName", "NonCompositePrimaryKeyNamedId",
                   "SnakeCaseColumnName", "SingularColumnName", "NoRustKeywordColumnName",
                   "TextualColumnRule">>,
     foreign_keys |-> <<"CompatibleForeignKey", "LowercaseForeignKeyName",
                        "ReferencesUniqueIndex", "PrimaryKeyReferenceEndsWithId",
                        "ExtensionForeignKeyOnDeleteCascade",
                        "NoRustKeywordForeignKeyName">>]

\* let constrainer = DefaultConstrainer::<DB>::default();
ConstructDefault ==
    /\ report = NoReport
    /\ report' = [rule |-> "DefaultConstrainer", kind |-> "Constrainer",
                  result |-> OkOf(DefaultConstrainer)]
    /\ UNCHANGED <<engine_vars, builder_vars>>

RulesInit == BuilderInit

RulesNext ==
    \/ ApplyTableRule
    \/ ApplyColumnRule
    \/ ApplyForeignKeyRule
    \/ ApplyUniqueForeignKey
    \/ ConstructDefault

RulesSpec == RulesInit /\ [][RulesNext]_vars

\* ---------------------------------------------------------------- claims: shipped rules

Applied == report.rule # "none"

Violated == Applied /\ ~report.result.ok /\ ~Panicked(report.result)

\* C9: a violation reported by a shipped rule is an Error of the variant of the
\* rule's kind (Table, Column or ForeignKey), it carries the entity the rule was
\* given, and the rule/constraint field of its diagnostic is the rule's own
\* name.
C9_ReportsOwnIdentifier ==
    Violated =>
        /\ report.result.error.variant = report.kind
        /\ report.result.error.entity = report.entity
        /\ report.result.error.info.rule = <<report.rule>>

\* Two of the constraints have equal canonical expressions.
HasDuplicates(constraints) ==
    \E i, j \in DOMAIN constraints :
        i < j /\ constraints[i].expression = constraints[j].expression

\* C15: UniqueCheckRule returns a Table error that carries the table and names
\* it exactly when two check constraints of the table have equal expressions,
\* and Ok otherwise.
C15_FailsIffDuplicateCheck ==
    report.rule = "UniqueCheckRule" =>
        IF HasDuplicates(report.entity.check_constraints)
        THEN /\ ~report.result.ok
             /\ report.result.error.variant = "Table"
             /\ report.result.error.entity = report.entity
             /\ report.result.error.info.object = report.entity.table_name
        ELSE report.result = Ok

\* The same on the tables whose name is not blank.
UniqueCheckRuleOnNamedTables ==
    report.rule = "UniqueCheckRule" /\ ~Blank(report.entity.table_name) =>
        IF HasDuplicates(report.entity.check_constraints)
        THEN /\ ~report.result.ok
             /\ report.result.error.variant = "Table"
             /\ report.result.error.entity = report.entity
             /\ report.result.error.info.object = report.entity.table_name
        ELSE report.result = Ok

Reordered(constraints, p) == [i \in 1..Len(constraints) |-> constraints[p[i]]]

\* C16: UniqueCheckRule and UniqueUniqueIndex give the same pass/fail verdict
\* for every order in which the check constraints, or the unique indices, of
\* the table are declared.
C16_OrderInsensitive ==
    /\ report.rule = "UniqueCheckRule" =>
            \A p \in Orders(Len(report.entity.check_constraints)) :
                UniqueCheckRule([report.entity EXCEPT !.check_constraints =
                    Reordered(report.entity.check_constraints, p)]).ok = report.result.ok
    /\ report.rule = "UniqueUniqueIndex" =>
            \A p \in Orders(Len(report.entity.unique_indices)) :
                UniqueUniqueIndex([report.entity EXCEPT !.unique_indices =
                    Reordered(report.entity.unique_indices, p)]).ok = report.result.ok

\* Two equal check constraints declared with a different one between them.
C16_Witness ==
    /\ report.rule = "UniqueCheckRule"
    /\ Len(report.entity.check_constraints) = 3
    /\ report.entity.check_constraints[1] = report.entity.check_constraints[3]
    /\ report.entity.check_constraints[1] # report.entity.check_constraints[2]
    /\ Violated

\* What a foreign key writes into the hasher, in declaration order, and the
\* digest of it.
HashedInOrder(fk) ==
    join(fk.host_columns \o <<fk.referenced_table>> \o fk.referenced_columns, <<"|">>)

DigestInOrder(hasher, fk) == finish(hasher, HashedInOrder(fk))

\* Two foreign keys of the table are the same, or have the same digest.
SameKeys(keys) == \E i, j \in DOMAIN keys : i < j /\ keys[i] = keys[j]

SameDigests(hasher, keys) ==
    \E i, j \in DOMAIN keys :
        i < j /\ DigestInOrder(hasher, keys[i]) = DigestInOrder(hasher, keys[j])

Reverse(s) == [i \in 1..Len(s) |-> s[Len(s) + 1 - i]]

PermutedPair(keys) ==
    /\ Len(keys) = 2
    /\ keys[1] # keys[2]
    /\ keys[2].referenced_table = keys[1].referenced_table
    /\ keys[2].host_columns = Reverse(keys[1].host_columns)
    /\ keys[2].referenced_columns = Reverse(keys[1].referenced_columns)

Duplicated(constraints) ==
    {constraints[i].expression : i \in {k \in DOMAIN constraints :
        \E j \in DOMAIN constraints : j # k /\ constraints[j].expression = constraints[k].expression}}

SmallestDuplicated(constraints) ==
    CHOOSE e \in Duplicated(constraints) : \A d \in Duplicated(constraints) : str_le(e, d)

NamesSmallestDuplicated ==
    /\ Violated
    /\ report.result.error.info.message =
            <<"Table '">> \o report.entity.table_name
                \o <<"' has non-unique unique index on columns: ">>
                \o SmallestDuplicated(report.entity.unique_indices)

\* C19: on a table with several groups of equal unique-index expressions,
\* UniqueUniqueIndex reports a diagnostic whose message names the smallest
\* expression that occurs more than once, whatever the declaration order.
C19_ReportsSmallestDuplicate ==
    /\ report.rule = "UniqueUniqueIndex"
    /\ Cardinality(Duplicated(report.entity.unique_indices)) > 1
    => NamesSmallestDuplicated

\* The same on the tables whose name is not blank, for one group or several.
UniqueUniqueIndexOnNamedTables ==
    /\ report.rule = "UniqueUniqueIndex"
    /\ Duplicated(report.entity.unique_indices) # {}
    /\ ~Blank(report.entity.table_name)
    => NamesSmallestDuplicated

\* Two groups, the greater expression declared first, on a named table.
TwoGroupsReported ==
    /\ report.rule = "UniqueUniqueIndex"
    /\ Cardinality(Duplicated(report.entity.unique_indices)) > 1
    /\ report.entity.unique_indices[1].expression
            # SmallestDuplicated(report.entity.unique_indices)
    /\ NamesSmallestDuplicated

\* The rule of the converted struct fails on a table, on a column or on a
\* foreign key of the schema, according to the trait the struct implements.
FailsOnItsKind(constraint, db) ==
    \E i \in DOMAIN db :
        \/ constraint.type \in TableRules /\ ~validate_table(constraint.rule, db, db[i]).ok
        \/ /\ constraint.type \in ColumnRules
           /\ \E j \in DOMAIN db[i].columns :
                  ~validate_column(constraint.rule, db, db[i].columns[j]).ok
        \/ /\ constraint.type \in ForeignKeyRules
           /\ \E k \in DOMAIN db[i].foreign_keys :
                  ~validate_foreign_key(constraint.rule, db, db[i].foreign_keys[k]).ok

\* C20: converting a rule struct yields a constrainer that holds that rule
\* alone, in the collection of the trait the struct implements, the other two
\* collections being empty; validate_schema on it fails exactly when the rule
\* fails on an entity of its kind.
C20_SingleRuleRegistry ==
    [][/\ last'.op = "from" =>
            /\ tables' = IF last'.arg.type \in TableRules THEN <<last'.arg.rule>> ELSE <<>>
            /\ columns' = IF last'.arg.type \in ColumnRules THEN <<last'.arg.rule>> ELSE <<>>
            /\ foreign_keys' =
                    IF last'.arg.type \in ForeignKeyRules THEN <<last'.arg.rule>> ELSE <<>>
       /\ last.op = "from" /\ last'.op = "validate_schema" =>
            (~last'.result.ok <=> FailsOnItsKind(last.arg, database))]_vars

\* A column rule was converted, and the schema has a column it fails on.
C20_Witness ==
    /\ last.op = "from"
    /\ last.arg.type = "TextualColumnRule"
    /\ columns = <<last.arg.rule>>
    /\ tables = <<>> /\ foreign_keys = <<>>
    /\ FailsOnItsKind(last.arg, database)

\* C21: every rule struct the rules module exports is registered in the
\* collection of its kind of a freshly constructed DefaultConstrainer.
C21_DefaultRegistersAll ==
    report.rule = "DefaultConstrainer" =>
        /\ TableRules \subseteq Range(report.result.value.tables)
        /\ ColumnRules \subseteq Range(report.result.value.columns)
        /\ ForeignKeyRules \subseteq Range(report.result.value.foreign_keys)

\* C22: no builder error escapes a rule: whatever the entity, a blank name
\* included, a rule returns Ok or an Error and never stops on the unwrap of a
\* setter's or of the finalization's error.
C22_NoBuilderErrorEscapes == Applied => ~Panicked(report.result)

\* C24: a validation pass only reads: validate_schema and the encounter_*
\* entry points leave the schema and the three rule collections, contents and
\* order, as they were, whether the pass returns Ok or an error.
C24_PassIsReadOnly ==
    [][last'.op \in {"validate_schema", "encounter_table", "encounter_column",
                     "encounter_foreign_key"}
        => UNCHANGED <<database, tables, columns, foreign_keys>>]_vars

\* A pass over a schema failed with rules of every kind registered.
C24_Witness ==
    /\ last.op = "validate_schema"
    /\ ~last.result.ok
    /\ tables # <<>> /\ columns # <<>> /\ foreign_keys # <<>>
    /\ database # <<>>

\* C25: TextualColumnRule passes every column that is not textual. It passes a
\* textual column exactly when the column has a not-empty check, has an upper
\* bound on its length, and its limit (the smallest bound) is at most 255 when
\* the column is in an index of its table or in the primary key and at most
\* 8192 otherwise. Of the three failures the missing not-empty check is
\* reported first, then the missing length check, then the excessive limit.
C25_TextualPassIffBounded ==
    report.rule = "TextualColumnRule" =>
        LET column == report.entity
            checks == Range(column.check_constraints)
            not_empty == \E c \in checks : c.is_not_empty_text_constraint
            limits == {c.is_upper_bounded_text_constraint[1] :
                          c \in {d \in checks : d.is_upper_bounded_text_constraint # None}}
            indexed ==
                \/ \E i \in DOMAIN column.table.indices :
                       column.column_name \in Range(column.table.indices[i])
                \/ column.column_name \in Range(column.table.primary_key_columns)
            ceiling == IF indexed THEN 255 ELSE 8192
            within == \E l \in limits : l <= ceiling
            said == report.result.error.info.message
            last_said == said[Len(said)]
        IN /\ ~Panicked(report.result)
           /\ ~column.is_textual => report.result.ok
           /\ column.is_textual =>
                 /\ report.result.ok <=> (not_empty /\ limits # {} /\ within)
                 /\ ~not_empty =>
                       last_said = "' must have a check constraint verifying it is not empty."
                 /\ not_empty /\ limits = {} =>
                       last_said = "' must have an upper bound length check constraint."
                 /\ not_empty /\ limits # {} /\ ~within =>
                       last_said \in {" which is greater than 255.",
                                      " which is greater than 8192 (8K). This column likely stores a document."}

\* A textual column in an index of its table, with a not-empty check and a
\* bound of 255, has passed.
C25_Witness ==
    /\ report.rule = "TextualColumnRule"
    /\ report.entity.is_textual
    /\ report.entity.table.indices # <<>>
    /\ \E c \in Range(report.entity.check_constraints) : c.is_not_empty_text_constraint
    /\ \E c \in Range(report.entity.check_constraints) :
           c.is_upper_bounded_text_constraint = Some(255)
    /\ report.result.ok

\* The foreign key's referenced columns are, position by position, the columns
\* of some unique index of the referenced table.
CoveredByUniqueIndex ==
    \E index \in Range(report.entity.referenced_unique_indices) :
        /\ Len(index.columns) = Len(report.entity.referenced_columns)
        /\ \A i \in DOMAIN index.columns :
               index.columns[i] = report.entity.referenced_columns[i]

ReportsForeignKeyByName ==
    /\ ~report.result.ok
    /\ ~Panicked(report.result)
    /\ report.result.error.variant = "ForeignKey"
    /\ report.result.error.entity = report.entity
    /\ report.result.error.info.object =
           (IF report.entity.foreign_key_name = None THEN <<"Unnamed foreign key">>
            ELSE report.entity.foreign_key_name[1])

\* C26: ReferencesUniqueIndex passes a foreign key exactly when some unique
\* index of the referenced table has the referenced columns as its column
\* sequence (same columns, same order, same length); otherwise it returns a
\* ForeignKey error whose object is the foreign key's name, or
\* 'Unnamed foreign key' when it has none.
C26_PassesIffExactIndex ==
    report.rule = "ReferencesUniqueIndex" =>
        /\ report.result.ok <=> CoveredByUniqueIndex
        /\ ~CoveredByUniqueIndex => ReportsForeignKeyByName

\* The same statement for the foreign keys whose name is not blank.
ReferencesUniqueIndexOnNamedKeys ==
    (/\ report.rule = "ReferencesUniqueIndex"
     /\ report.entity.foreign_key_name # Some(<<" ">>)) =>
        /\ report.result.ok <=> CoveredByUniqueIndex
        /\ ~CoveredByUniqueIndex => ReportsForeignKeyByName

\* A two-column key whose columns are indexed in the other order is reported.
ReorderedIndexReported ==
    /\ report.rule = "ReferencesUniqueIndex"
    /\ Len(report.entity.referenced_columns) = 2
    /\ report.entity.referenced_columns[1] # report.entity.referenced_columns[2]
    /\ \E index \in Range(report.entity.referenced_unique_indices) :
           index.columns = <<report.entity.referenced_columns[2],
                             report.entity.referenced_columns[1]>>
    /\ ReportsForeignKeyByName

\* The text occurs in the expression once its letters are lowercased.
Mentions(expression, text) ==
    \E start \in 1..Len(expression) :
        /\ start + Len(text) - 1 <= Len(expression)
        /\ SubSeq(to_lowercase(expression), start, start + Len(text) - 1) = text

PastCheck(expression) ==
    /\ \/ Mentions(expression, <<"n", "o", "w", "(", ")">>)
       \/ Mentions(expression, <<"c", "u", "r", "r", "e", "n", "t", "_", "t", "i", "m", "e",
                                 "s", "t", "a", "m", "p">>)
    /\ Mentions(expression, <<"<">>)

TimeColumn ==
    LET name == report.entity.column_name
    IN /\ Len(name) >= 3
       /\ SubSeq(name, Len(name) - 2, Len(name)) = <<"_", "a", "t">>
       /\ name \notin {<<"e", "x", "p", "i", "r", "e", "s", "_", "a", "t">>,
                        <<"d", "u", "e", "_", "a", "t">>,
                        <<"s", "t", "a", "r", "t", "s", "_", "a", "t">>,
                        <<"e", "n", "d", "s", "_", "a", "t">>,
                        <<"s", "c", "h", "e", "d", "u", "l", "e", "d", "_", "a", "t">>}

\* C27: PastTimeColumnRule passes every column whose name does not end in _at
\* or is exactly expires_at, due_at, starts_at, ends_at or scheduled_at; any
\* other column ending in _at passes exactly when one of its check constraints
\* has an expression that, lowercased, contains now() or current_timestamp and
\* contains the character <.
C27_PastTimeNeedsPastCheck ==
    report.rule = "PastTimeColumnRule" =>
        /\ ~Panicked(report.result)
        /\ ~TimeColumn => report.result.ok
        /\ TimeColumn =>
              (report.result.ok <=>
                  \E c \in Range(report.entity.check_constraints) : PastCheck(c.expression))

\* A column whose name only ends in an exempt name, with one check that has <
\* and another that mentions NOW(), has been rejected.
C27_Witness ==
    /\ report.rule = "PastTimeColumnRule"
    /\ report.entity.column_name = <<"x", "_", "d", "u", "e", "_", "a", "t">>
    /\ \E c \in Range(report.entity.check_constraints) : Mentions(c.expression, <<"<">>)
    /\ \E c \in Range(report.entity.check_constraints) :
           Mentions(c.expression, <<"n", "o", "w", "(", ")">>)
    /\ ~report.result.ok

\* The positions both column sequences of the foreign key have whose columns
\* are not compatible.
IncompatiblePairs ==
    {i \in DOMAIN report.entity.host_columns \cap DOMAIN report.entity.referenced_columns :
        ~is_compatible_with(report.entity.host_columns[i],
                            report.entity.referenced_columns[i])}

\* C28: CompatibleForeignKey passes exactly when every pair (host_i,
\* referenced_i) is compatible; when it reports a violation the diagnostic is
\* about the first incompatible pair in declaration order; the columns one
\* sequence has beyond the length of the other are not looked at.
C28_FailsOnFirstIncompatiblePair ==
    report.rule = "CompatibleForeignKey" =>
        /\ report.result.ok <=> IncompatiblePairs = {}
        /\ Violated =>
              LET first == CHOOSE i \in IncompatiblePairs : \A j \in IncompatiblePairs : i <= j
              IN report.result.error.info.message =
                     get_incompatibility_details(
                         report.entity.host_table, report.entity.referenced_table,
                         report.entity.host_columns[first],
                         report.entity.referenced_columns[first])[1]

\* A key with two incompatible pairs that are described differently has been
\* reported.
C28_Witness ==
    /\ report.rule = "CompatibleForeignKey"
    /\ Violated
    /\ IncompatiblePairs = {1, 2}
    /\ get_incompatibility_details(
           report.entity.host_table, report.entity.referenced_table,
           report.entity.host_columns[1], report.entity.referenced_columns[1])
       # get_incompatibility_details(
           report.entity.host_table, report.entity.referenced_table,
           report.entity.host_columns[2], report.entity.referenced_columns[2])

\* A key with more host columns than referenced columns has passed although
\* its second host column is compatible with no referenced column.
UnpairedColumnIgnored ==
    /\ report.rule = "CompatibleForeignKey"
    /\ report.result.ok
    /\ Len(report.entity.host_columns) = 2
    /\ Len(report.entity.referenced_columns) = 1
    /\ ~is_compatible_with(report.entity.host_columns[2],
                           report.entity.referenced_columns[1])

\* C29: finalizing a builder with several required fields unset names the
\* first unset one in the order rule, object, message: MissingAttribute("rule")
\* ("constraint" for a ConstraintErrorInfoBuilder) when the rule is unset,
\* else MissingAttribute("object") when the object is unset, else
\* MissingAttribute("message"); an unset resolution is never reported.
C29_MissingReportedInOrder ==
    reply.op = "try_from" =>
        LET first_field == IF reply.of.flavour = "Rule" THEN "rule" ELSE "constraint"
            missing == [variant |-> "MissingAttribute",
                        name |-> IF passed.rule = None THEN first_field
                                 ELSE IF passed.object = None THEN "object"
                                 ELSE "message"]
        IN /\ (passed.rule = None \/ passed.object = None \/ passed.message = None) =>
                 /\ ~reply.result.ok
                 /\ reply.result.error = missing
           /\ ~reply.result.ok => reply.result.error.name # "resolution"
           /\ (/\ passed.rule # None /\ passed.object # None /\ passed.message # None
               /\ passed.resolution = None) => reply.result.ok

\* A builder given a message and a resolution only has been finalized: rule
\* and object are both unset.
C29_Witness ==
    /\ reply.op = "try_from"
    /\ passed.rule = None /\ passed.object = None
    /\ passed.message # None /\ passed.resolution # None
    /\ ~reply.result.ok

\* "FOREIGN KEY (host columns) REFERENCES table (referenced columns)"
FullDetails(fk) ==
    <<"FOREIGN KEY (">> \o join(fk.host_columns, <<", ">>) \o <<") REFERENCES ">>
        \o fk.referenced_table \o <<" (">> \o join(fk.referenced_columns, <<", ">>)
        \o <<")">>

\* The signatures that two foreign keys of the table share.
SharedDigests ==
    {DigestInOrder(report.hasher, report.entity.foreign_keys[i]) :
        i \in {k \in DOMAIN report.entity.foreign_keys :
                 \E j \in DOMAIN report.entity.foreign_keys :
                     /\ j # k
                     /\ DigestInOrder(report.hasher, report.entity.foreign_keys[j])
                          = DigestInOrder(report.hasher, report.entity.foreign_keys[k])}}

\* C30: a violation reported by UniqueForeignKey describes exactly two foreign
\* keys of the table, with host columns, referenced table and referenced
\* columns of both: two keys of the smallest signature that two keys share,
\* which is the first adjacent pair with equal signatures once the keys are
\* sorted by signature. The resolution names the first of the two. The
\* message 'has duplicate foreign keys' is never produced, and keys that share
\* a larger signature are not mentioned.
C30_ReportsFirstCollidingPair ==
    (report.rule = "UniqueForeignKey" /\ Violated) =>
        LET keys == report.entity.foreign_keys
            name == report.entity.table_name
            least == CHOOSE d \in SharedDigests : \A e \in SharedDigests : d <= e
            info == report.result.error.info
        IN /\ SharedDigests # {}
           /\ \E i, j \in DOMAIN keys :
                 /\ i # j
                 /\ DigestInOrder(report.hasher, keys[i]) = least
                 /\ DigestInOrder(report.hasher, keys[j]) = least
                 /\ info.message =
                        <<"Table '">> \o name
                            \o <<"' has ", "2", " duplicate foreign key definitions:",
                                 "\n", "  - ">>
                            \o FullDetails(keys[i]) \o <<"\n", "  - ">>
                            \o FullDetails(keys[j])
                            \o <<"\n", "Both foreign keys reference the same columns and target table">>
                 /\ info.resolution =
                        Some(<<"Remove one of the duplicate foreign key constraints from table '">>
                                \o name \o <<"'. Keep only one: ">> \o FullDetails(keys[i]))
           /\ info.message # <<"Table '">> \o name \o <<"' has duplicate foreign keys">>

\* Two keys each declared twice, with different signatures, have been
\* reported: a second colliding pair exists behind the reported one.
C30_Witness ==
    /\ report.rule = "UniqueForeignKey"
    /\ Violated
    /\ Cardinality(SharedDigests) = 2

\* Three different keys of one signature have been reported with the key
\* declared last named first.
TieOrderOpen ==
    /\ report.rule = "UniqueForeignKey"
    /\ Violated
    /\ Len(report.entity.foreign_keys) = 3
    /\ Cardinality(Range(report.entity.foreign_keys)) = 3
    /\ Cardinality({DigestInOrder(report.hasher, k) : k \in Range(report.entity.foreign_keys)}) = 1
    /\ report.result.error.info.resolution =
           Some(<<"Remove one of the duplicate foreign key constraints from table '">>
                   \o report.entity.table_name \o <<"'. Keep only one: ">>
                   \o FullDetails(report.entity.foreign_keys[3]))

====
